---- MODULE Spec2Model ----
(***************************************************************************)
(* A model of the vibelang virtual machine (src/src/vm.c), its heap        *)
(* objects and string interning (src/src/object.c, src/src/table.c) and    *)
(* the part of the compiler that emits returns (src/src/compiler.c).       *)
(*                                                                         *)
(* The VM struct is the record `vm`.  Pointers into the register stack    *)
(* are pairs [gen, off]: `off` is the slot index from the base of the      *)
(* block and `gen` names the block realloc() returned; a pointer whose     *)
(* gen differs from vm.stack_gen points into freed storage.  Using such a  *)
(* pointer is undefined behaviour: the step that does it picks one of the  *)
(* outcomes (the old contents are still there, or junk) and sets vm.ub,    *)
(* after which nothing more is said about the run.                         *)
(***************************************************************************)
EXTENDS Integers, Sequences, FiniteSets, TLC

\* ------------------------------------------------------------ bounds
MaxObjects == 16      \* heap cells the model may hold at one time
MaxFrames == 3        \* call depth the model explores
MaxPush == 1          \* values the embedder pushes with vm_push
MaxRuns == 1          \* vm_interpret calls on one VM
MaxBody == 2          \* statements in the body of a compiled method

\* ------------------------------------------------------------ program constants
INITIAL_STACK_CAPACITY == 256
INITIAL_FRAME_CAPACITY == 64
UINT8_MAX == 255
UINT16_MAX == 65535

Addr == 1..MaxObjects
NULL == 0

\* ------------------------------------------------------------ values (value.h)
Null == [t |-> "null", v |-> 0]
value_make_null == Null
value_make_bool(b) == [t |-> "bool", v |-> IF b THEN 1 ELSE 0]
value_make_number(n) == [t |-> "number", v |-> n]
value_make_obj(a) == [t |-> "obj", v |-> a]
\* what a read of freed or out-of-bounds storage may yield besides the old value
JunkValue == [t |-> "junk", v |-> 0]

value_is_null(x) == x.t = "null"
value_is_bool(x) == x.t = "bool"
value_is_number(x) == x.t = "number"
value_is_obj(x) == x.t = "obj"
value_as_obj(x) == x.v

\* A number is a double.  value_make_number(n) is the double of the integer
\* n; the doubles that are no small integer carry a `part`: n + 1/2 ("half"),
\* an integer too large for the arrays here but below 2^64 ("big"), 2^64
\* itself, which is (double)SIZE_MAX ("size_max"), a finite value above it
\* or +infinity ("huge"), and NaN ("nan").  Only OP_ARRAY_GET is followed on
\* these.
value_make_double(n, part) == [t |-> "number", v |-> n, part |-> part]
Part(x) == IF "part" \in DOMAIN x THEN x.part ELSE "exact"
\* a.as.number == b.as.number: NaN compares unequal to every double
NumbersEqual(a, b) ==
    Part(a) # "nan" /\ Part(b) # "nan" /\ Part(a) = Part(b) /\ a.v = b.v

\* ------------------------------------------------------------ heap cells (object.h)
FreeCell == [type |-> "free"]

TypeOf(mem, a) == IF a \in Addr THEN mem[a].type ELSE "free"
value_is_string(mem, x) == value_is_obj(x) /\ TypeOf(mem, x.v) = "string"
value_is_function(mem, x) == value_is_obj(x) /\ TypeOf(mem, x.v) = "function"
value_is_array(mem, x) == value_is_obj(x) /\ TypeOf(mem, x.v) = "array"
value_is_class(mem, x) == value_is_obj(x) /\ TypeOf(mem, x.v) = "class"
value_is_instance(mem, x) == value_is_obj(x) /\ TypeOf(mem, x.v) = "instance"
value_is_bound_method(mem, x) == value_is_obj(x) /\ TypeOf(mem, x.v) = "bound_method"

\* value_equals that does not look at the variants
value_equals_AnyVariant(mem, a, b) == a.v = b.v

\* value_equals
value_equals(mem, a, b) ==
    IF a.t # b.t THEN FALSE
    ELSE CASE a.t = "null" -> TRUE
           [] a.t = "bool" -> a.v = b.v
           [] a.t = "number" -> NumbersEqual(a, b)
           [] a.t = "obj" ->
                 IF value_is_string(mem, a) /\ value_is_string(mem, b)
                 THEN \/ a.v = b.v
                      \/ /\ Len(mem[a.v].chars) = Len(mem[b.v].chars)
                         /\ mem[a.v].chars = mem[b.v].chars
                 ELSE a.v = b.v
           [] OTHER -> FALSE

\* ------------------------------------------------------------ hash_bytes (FNV-1a, 32 bit)
\* The 32-bit hash is kept as two 16-bit halves so that no product leaves
\* the range of 32-bit signed arithmetic.
RECURSIVE Xor8(_, _, _)
Xor8(a, b, n) ==
    IF n = 0 THEN 0
    ELSE (IF (a % 2) # (b % 2) THEN 1 ELSE 0) + 2 * Xor8(a \div 2, b \div 2, n - 1)

\* hash *= 16777619 (0x01000193 = 2^24 + 403), modulo 2^32
FnvMul(h) ==
    LET lo403 == h.lo * 403
        hi403 == h.hi * 403
    IN [lo |-> lo403 % 65536,
        hi |-> (hi403 + (lo403 \div 65536) + (h.lo % 256) * 256) % 65536]

RECURSIVE HashFrom(_, _, _)
HashFrom(h, chars, i) ==
    IF i > Len(chars) THEN h
    ELSE HashFrom(FnvMul([hi |-> h.hi,
                          lo |-> (h.lo \div 256) * 256 + Xor8(h.lo % 256, chars[i], 8)]),
                  chars, i + 1)

\* FNV_OFFSET = 2166136261 = 0x811C9DC5
hash_bytes(chars) == HashFrom([hi |-> 33052, lo |-> 40389], chars, 1)

\* ------------------------------------------------------------ the register stack
\* vm.stack holds the slots of the current block that contain a non-null
\* value; every slot the code reads has been written before (a window is
\* null-filled when its frame is pushed), so an absent slot reads as null.
Rd(s, i) == IF i \in DOMAIN s THEN s[i] ELSE Null
Wr(s, i, x) ==
    IF x = Null THEN [j \in (DOMAIN s) \ {i} |-> s[j]]
    ELSE [j \in (DOMAIN s) \cup {i} |-> IF j = i THEN x ELSE s[j]]

NullPtr == [gen |-> -1, off |-> 0]
Ptr(g, o) == [gen |-> g, off |-> o]
\* a pointer into the block the VM currently owns
Live(m, p) == p.gen = m.stack_gen

RECURSIVE GrowTo(_, _)
GrowTo(cap, required) == IF cap >= required THEN cap ELSE GrowTo(cap * 2, required)

\* ensure_stack_capacity: `moved` is realloc's choice between growing in
\* place and returning a new block (the old one is freed).
ensure_stack_capacity(m, additional_slots, moved) ==
    LET required == m.stack_top + additional_slots IN
    IF required <= m.stack_capacity THEN m
    ELSE [m EXCEPT !.stack_capacity =
                       GrowTo(IF m.stack_capacity = 0 THEN INITIAL_STACK_CAPACITY
                              ELSE m.stack_capacity, required),
                   \* realloc(NULL, ...) is a first allocation: nothing points to it yet
                   !.stack_gen = IF moved /\ m.stack_capacity # 0 THEN @ + 1 ELSE @]

ensure_frame_capacity(m, additional_frames) ==
    LET required == Len(m.frames) + additional_frames IN
    IF required <= m.frame_capacity THEN m
    ELSE [m EXCEPT !.frame_capacity =
                       GrowTo(IF m.frame_capacity = 0 THEN INITIAL_FRAME_CAPACITY
                              ELSE m.frame_capacity, required)]

\* vm_reset_stack: does nothing while the stack has not been allocated.
vm_reset_stack(m) ==
    IF m.stack_capacity = 0 THEN m ELSE [m EXCEPT !.stack_top = 0, !.frames = << >>]

\* vm_push: a push below the base (stack_top = -1) writes outside the block.
vm_push(m, value, moved) ==
    LET Store(m1) ==
            IF m1.stack_top < 0
            THEN [m1 EXCEPT !.ub = TRUE, !.stack_top = @ + 1]
            ELSE [m1 EXCEPT !.stack = Wr(@, m1.stack_top, value), !.stack_top = @ + 1]
    IN Store(ensure_stack_capacity(m, 1, moved))

vm_pop(m) == [m EXCEPT !.stack_top = @ - 1]

\* runtime_error: prints the message and the frame trace, then resets.
runtime_error(m) == vm_reset_stack(m)

\* ------------------------------------------------------------ allocation (object.c)
\* malloc hands out the lowest free cell, so the storage of a freed object
\* is reused by a later allocation.
HasFree(m, n) == Cardinality({a \in Addr : m.mem[a].type = "free"}) >= n
FreeAddr(m) == CHOOSE a \in Addr :
                  /\ m.mem[a].type = "free"
                  /\ \A b \in Addr : b < a => m.mem[b].type # "free"

\* allocate_object: the new object is linked at the head of vm->objects.
\* Returns the VM with the cell `body` (given marked = FALSE) at address ret.
\* sizeof of the object structs, of Value and of ObjProperty (LP64)
sizeof_Value == 16
sizeof_ObjProperty == 24
SizeOf(type) ==
    CASE type = "function" -> 80
      [] type = "string" -> 40
      [] type = "array" -> 40
      [] type = "class" -> 48
      [] type = "instance" -> 48
      [] type = "bound_method" -> 40

allocate_object(m, body) ==
    LET Link(a) == [vm |-> [m EXCEPT !.mem[a] = body, !.objects = <<a>> \o @,
                                   !.bytes_allocated = @ + SizeOf(body.type)],
                  ret |-> a]
    IN Link(FreeAddr(m))

StringCell(chars, hash) ==
    [type |-> "string", marked |-> FALSE, chars |-> chars, hash |-> hash]
FunctionCell(arity) ==
    [type |-> "function", marked |-> FALSE, arity |-> arity, register_count |-> 0,
     code |-> << >>, constants |-> << >>, name |-> NULL]
ArrayCell == [type |-> "array", marked |-> FALSE, elements |-> << >>, capacity |-> 0]
ClassCell(name) ==
    [type |-> "class", marked |-> FALSE, name |-> name, methods |-> << >>, method_capacity |-> 0]
InstanceCell(klass) ==
    [type |-> "instance", marked |-> FALSE, klass |-> klass, fields |-> << >>,
     field_capacity |-> 0]
BoundMethodCell(receiver, method) ==
    [type |-> "bound_method", marked |-> FALSE, receiver |-> receiver, method |-> method]

\* allocate_string: the object, then the bytes and their terminator
allocate_string(m, chars, hash) ==
    LET WithBytes(al) ==
            [vm |-> [al.vm EXCEPT !.bytes_allocated = @ + Len(chars) + 1], ret |-> al.ret]
    IN WithBytes(allocate_object(m, StringCell(chars, hash)))

\* ------------------------------------------------------------ the intern table (table.c)
\* vm.strings is keys[0 .. count-1].  An entry whose object has been freed
\* is a dangling pointer: string_equals on it compares whatever now lives
\* in that cell.
string_equals(m, entry, chars, hash) ==
    /\ entry # NULL
    /\ TypeOf(m.mem, entry) = "string"
    /\ m.mem[entry].hash = hash
    /\ Len(m.mem[entry].chars) = Len(chars)
    /\ (Len(chars) = 0 \/ m.mem[entry].chars = chars)

table_find_string(m, chars, hash) ==
    LET hits == {i \in 1..Len(m.strings) : string_equals(m, m.strings[i], chars, hash)} IN
    IF hits = {} THEN NULL
    ELSE m.strings[CHOOSE i \in hits : \A j \in hits : i <= j]

table_define(m, key) ==
    IF key = NULL THEN m
    ELSE IF table_find_string(m, m.mem[key].chars, m.mem[key].hash) # NULL THEN m
    ELSE [m EXCEPT !.strings = Append(@, key)]

RECURSIVE KeepMarked(_, _, _)
KeepMarked(m, keys, i) ==
    IF i > Len(keys) THEN << >>
    ELSE (IF keys[i] # NULL /\ TypeOf(m.mem, keys[i]) # "free" /\ m.mem[keys[i]].marked
          THEN <<keys[i]>> ELSE << >>) \o KeepMarked(m, keys, i + 1)

\* table_remove_white: compacts the entries whose string is marked.
table_remove_white(m) == [m EXCEPT !.strings = KeepMarked(m, m.strings, 1)]

\* obj_string_take / obj_string_copy: copy makes a heap copy of the bytes
\* and hands it to take, which returns the interned string when there is one.
\* obj_string_take that does not enter the new string in the intern table
obj_string_take_NoDefine(m, chars, moved) ==
    LET Protect(al) ==
            [vm |-> vm_pop(vm_push(al.vm, value_make_obj(al.ret), moved)), ret |-> al.ret]
        Take(hash, interned) ==
            IF interned # NULL THEN [vm |-> m, ret |-> interned]
            ELSE Protect(allocate_string(m, chars, hash))
        Find(hash) == Take(hash, table_find_string(m, chars, hash))
    IN Find(hash_bytes(chars))

obj_string_take(m, chars, moved) ==
    LET \* the new string is pushed while the table may grow, then popped
        Protect(al) ==
            [vm |-> vm_pop(table_define(vm_push(al.vm, value_make_obj(al.ret), moved),
                                        al.ret)),
             ret |-> al.ret]
        Take(hash, interned) ==
            IF interned # NULL THEN [vm |-> m, ret |-> interned]
            ELSE Protect(allocate_string(m, chars, hash))
        Find(hash) == Take(hash, table_find_string(m, chars, hash))
    IN Find(hash_bytes(chars))

obj_string_copy(m, chars, moved) == obj_string_take(m, chars, moved)

\* a NULL name pointer (not a byte string)
NoName == <<-1>>

\* obj_function_new: the function is allocated first, then its name is interned.
obj_function_new(m, name, arity, moved) ==
    LET Named(function, st) ==
            [vm |-> [st.vm EXCEPT !.mem[function].name = st.ret], ret |-> function]
        New(al) == IF name = NoName THEN al
                   ELSE Named(al.ret, obj_string_copy(al.vm, name, moved))
    IN New(allocate_object(m, FunctionCell(arity)))

\* array_resize: the storage of `array` gets new_capacity slots
array_resize(m, array, new_capacity) ==
    [m EXCEPT !.mem[array].capacity = new_capacity,
              !.bytes_allocated = @ + new_capacity * sizeof_Value
                                    - m.mem[array].capacity * sizeof_Value]
array_ensure_capacity_or_die(m, array, min_capacity) ==
    IF m.mem[array].capacity >= min_capacity THEN m
    ELSE array_resize(m, array,
                      GrowTo(IF m.mem[array].capacity = 0 THEN 8 ELSE m.mem[array].capacity,
                             min_capacity))

obj_array_new(m) == allocate_object(m, ArrayCell)
obj_array_append(m, array, value) ==
    [array_ensure_capacity_or_die(m, array, Len(m.mem[array].elements) + 1)
        EXCEPT !.mem[array].elements = Append(@, value)]
obj_array_extend(m, array, values) ==
    IF values = << >> THEN m
    ELSE [array_ensure_capacity_or_die(m, array, Len(m.mem[array].elements) + Len(values))
             EXCEPT !.mem[array].elements = @ \o values]
obj_array_copy(m, values) ==
    LET Fill(al) ==
            IF values = << >> THEN al
            ELSE [vm |-> [array_ensure_capacity_or_die(al.vm, al.ret, Len(values))
                             EXCEPT !.mem[al.ret].elements = values],
                  ret |-> al.ret]
    IN Fill(obj_array_new(m))

\* ensure_property_capacity, as the number of slots `current` has to become
PropertyCapacity(current, required) ==
    IF current >= required THEN current
    ELSE GrowTo(IF current = 0 THEN 4 ELSE current, required)

obj_class_new(m, name) == allocate_object(m, ClassCell(name))
obj_instance_new(m, klass) == allocate_object(m, InstanceCell(klass))
obj_bound_method_new(m, receiver, method) ==
    allocate_object(m, BoundMethodCell(receiver, method))

\* the first property of `props` whose name is the very string object `name`
PropIndex(props, name) ==
    LET hits == {i \in 1..Len(props) : props[i].name = name} IN
    IF hits = {} THEN 0 ELSE CHOOSE i \in hits : \A j \in hits : i <= j

PropSet(props, name, value) ==
    IF PropIndex(props, name) # 0
    THEN [props EXCEPT ![PropIndex(props, name)].value = value]
    ELSE Append(props, [name |-> name, value |-> value])

obj_class_define_method(m, klass, name, method) ==
    LET Define(o, capacity) ==
            [m EXCEPT !.mem[klass].methods = PropSet(@, name, method),
                      !.mem[klass].method_capacity = capacity,
                      !.bytes_allocated =
                          @ + (capacity - o.method_capacity) * sizeof_ObjProperty]
        Ensure(o) ==
            Define(o, IF PropIndex(o.methods, name) # 0 THEN o.method_capacity
                      ELSE PropertyCapacity(o.method_capacity, Len(o.methods) + 1))
    IN Ensure(m.mem[klass])
obj_class_find_method(m, klass, name) == PropIndex(m.mem[klass].methods, name)
obj_instance_get_field(m, instance, name) == PropIndex(m.mem[instance].fields, name)
obj_instance_set_field(m, instance, name, value) ==
    LET Store(o, capacity) ==
            [m EXCEPT !.mem[instance].fields = PropSet(@, name, value),
                      !.mem[instance].field_capacity = capacity,
                      !.bytes_allocated =
                          @ + (capacity - o.field_capacity) * sizeof_ObjProperty]
        Ensure(o) ==
            Store(o, IF PropIndex(o.fields, name) # 0 THEN o.field_capacity
                     ELSE PropertyCapacity(o.field_capacity, Len(o.fields) + 1))
    IN Ensure(m.mem[instance])

\* ------------------------------------------------------------ garbage collection (vm.c)
\* mark_object that pushes an object whether it is marked or not
mark_object_Again(m, object) ==
    IF object = NULL \/ TypeOf(m.mem, object) = "free" THEN m
    ELSE [m EXCEPT !.mem[object].marked = TRUE, !.gray_stack = Append(@, object)]

\* mark_object: sets the mark bit and pushes the object on the gray stack;
\* a NULL pointer or an already marked object is left alone.
mark_object(m, object) ==
    IF object = NULL \/ TypeOf(m.mem, object) = "free" \/ m.mem[object].marked THEN m
    ELSE [m EXCEPT !.mem[object].marked = TRUE, !.gray_stack = Append(@, object)]

mark_value(m, value) == IF value_is_obj(value) THEN mark_object(m, value_as_obj(value)) ELSE m

RECURSIVE mark_array(_, _, _)
mark_array(m, values, i) ==
    IF i > Len(values) THEN m ELSE mark_array(mark_value(m, values[i]), values, i + 1)

RECURSIVE MarkProperties(_, _, _)
MarkProperties(m, props, i) ==
    IF i > Len(props) THEN m
    ELSE MarkProperties(mark_value(mark_object(m, props[i].name), props[i].value), props, i + 1)

\* the loop over vm->stack .. vm->stack_top: a null slot marks nothing, so
\* the loop is followed over the slots that hold a value, lowest first
RECURSIVE MarkSlots(_, _)
MarkSlots(m, slot) ==
    LET rest == {i \in DOMAIN m.stack : i >= slot /\ i < m.stack_top} IN
    IF rest = {} THEN m
    ELSE LET next == CHOOSE i \in rest : \A j \in rest : i <= j
         IN MarkSlots(mark_value(m, m.stack[next]), next + 1)

RECURSIVE MarkFrames(_, _)
MarkFrames(m, i) ==
    IF i > Len(m.frames) THEN m ELSE MarkFrames(mark_object(m, m.frames[i].function), i + 1)

RECURSIVE MarkGlobals(_, _)
MarkGlobals(m, i) ==
    IF i > m.global_count THEN m
    ELSE MarkGlobals(IF m.global_defined[i] THEN mark_value(m, m.globals[i]) ELSE m, i + 1)

mark_roots(m) == MarkGlobals(MarkFrames(MarkSlots(m, 0), 1), 1)

\* blacken_object that does not follow a class to its methods
blacken_object_NoMethods(m, object) ==
    LET o == m.mem[object] IN
    CASE o.type = "function" -> mark_array(mark_object(m, o.name), o.constants, 1)
      [] o.type = "string" -> m
      [] o.type = "array" -> mark_array(m, o.elements, 1)
      [] o.type = "class" -> mark_object(m, o.name)
      [] o.type = "instance" -> MarkProperties(mark_object(m, o.klass), o.fields, 1)
      [] o.type = "bound_method" -> mark_object(mark_value(m, o.receiver), o.method)
      [] OTHER -> m

blacken_object(m, object) ==
    LET o == m.mem[object] IN
    CASE o.type = "function" -> mark_array(mark_object(m, o.name), o.constants, 1)
      [] o.type = "string" -> m
      [] o.type = "array" -> mark_array(m, o.elements, 1)
      [] o.type = "class" -> MarkProperties(mark_object(m, o.name), o.methods, 1)
      [] o.type = "instance" -> MarkProperties(mark_object(m, o.klass), o.fields, 1)
      [] o.type = "bound_method" -> mark_object(mark_value(m, o.receiver), o.method)
      [] OTHER -> m

RECURSIVE trace_references(_)
trace_references(m) ==
    IF m.gray_stack = << >> THEN m
    ELSE LET object == m.gray_stack[Len(m.gray_stack)]
             m1 == [m EXCEPT !.gray_stack = SubSeq(@, 1, Len(@) - 1)]
         IN trace_references(blacken_object(m1, object))

\* obj_free that leaves bytes_allocated as it is
obj_free_KeepsBytes(m, object) == [m EXCEPT !.mem[object] = FreeCell]

\* obj_free: the cell goes back to the allocator; what was counted for the
\* object is taken off bytes_allocated.
Accounted(o) ==
    SizeOf(o.type)
    + (CASE o.type = "string" -> Len(o.chars) + 1
         [] o.type = "array" -> o.capacity * sizeof_Value
         [] o.type = "class" -> o.method_capacity * sizeof_ObjProperty
         [] o.type = "instance" -> o.field_capacity * sizeof_ObjProperty
         [] OTHER -> 0)
obj_free(m, object) ==
    [m EXCEPT !.mem[object] = FreeCell,
              !.bytes_allocated = @ - Accounted(m.mem[object])]

\* sweep: a marked object is unmarked and kept; any other is unlinked and freed.
RECURSIVE SweepFrom(_, _, _)
SweepFrom(m, list, i) ==
    IF i > Len(list) THEN m
    ELSE IF m.mem[list[i]].marked
         THEN SweepFrom([m EXCEPT !.mem[list[i]].marked = FALSE], list, i + 1)
         ELSE SweepFrom([obj_free(m, list[i]) EXCEPT
                            !.objects = SelectSeq(@, LAMBDA a : a # list[i])], list, i + 1)

\* sweep that keeps the mark of the objects it keeps
RECURSIVE SweepFrom_KeepsMarks(_, _, _)
SweepFrom_KeepsMarks(m, list, i) ==
    IF i > Len(list) THEN m
    ELSE IF m.mem[list[i]].marked
         THEN SweepFrom_KeepsMarks(m, list, i + 1)
         ELSE SweepFrom_KeepsMarks([obj_free(m, list[i]) EXCEPT
                                       !.objects = SelectSeq(@, LAMBDA a : a # list[i])],
                                   list, i + 1)
sweep_KeepsMarks(m) == SweepFrom_KeepsMarks(m, m.objects, 1)

sweep(m) == SweepFrom(m, m.objects, 1)

\* vm_collect_garbage that sweeps before it prunes the intern table
next_gc_after(m) ==
    [m EXCEPT !.next_gc = IF m.bytes_allocated * 2 < 1024 THEN 1024
                          ELSE m.bytes_allocated * 2]

vm_collect_garbage_SweepFirst(m) ==
    next_gc_after(table_remove_white(sweep(trace_references(mark_roots(m)))))

vm_collect_garbage(m) ==
    next_gc_after(sweep(table_remove_white(trace_references(mark_roots(m)))))

\* ------------------------------------------------------------ calls (vm.c)
\* A read or a write through a register pointer.  Through a pointer into a
\* freed block the behaviour is undefined: the read yields what the block
\* last held (`old`) or junk, the write does not reach the live stack.
RegRead(m, ptr, i, old, junk) ==
    IF Live(m, ptr) THEN Rd(m.stack, ptr.off + i)
    ELSE IF junk THEN JunkValue ELSE Rd(old, ptr.off + i)

RegWrite(m, ptr, i, value) ==
    IF Live(m, ptr) THEN [m EXCEPT !.stack = Wr(@, ptr.off + i, value)]
    ELSE [m EXCEPT !.ub = TRUE]

\* the loop registers[i] = value_make_null() over i < register_count
NullFill(s, from, n) == [j \in (DOMAIN s) \ (from..(from + n - 1)) |-> s[j]]

\* registers[i] = caller->registers[arg_registers[i]], one argument after
\* the other, reading the stack as the earlier writes left it.
RECURSIVE CopyArgs(_, _, _, _, _, _, _)
CopyArgs(m, registers, caller_registers, arg_registers, i, old, junk) ==
    IF i > Len(arg_registers) THEN m
    ELSE LET value == RegRead(m, caller_registers, arg_registers[i], old, junk)
             m1 == [m EXCEPT !.stack = Wr(@, registers + i - 1, value),
                             !.ub = @ \/ ~Live(m, caller_registers)]
         IN CopyArgs(m1, registers, caller_registers, arg_registers, i + 1, old, junk)

\* call_function.  `caller` is the index of the calling frame in vm.frames
\* (0 for the NULL caller of vm_interpret).  Returns [vm, ok].
call_function(m, caller, function, dest_reg, arg_count, arg_registers, moved, junk) ==
    LET f == m.mem[function] IN
    IF f.arity # arg_count THEN [vm |-> runtime_error(m), ok |-> FALSE]
    ELSE IF f.register_count < f.arity THEN [vm |-> runtime_error(m), ok |-> FALSE]
    ELSE
      LET frame(m1) == [function |-> function,
                        ip |-> 0,
                        registers |-> Ptr(m1.stack_gen, m1.stack_top),
                        caller_registers |-> IF caller # 0 THEN m.frames[caller].registers
                                             ELSE NullPtr,
                        return_reg |-> dest_reg]
          Enter(m3) == [vm |-> [m3 EXCEPT !.frames = Append(@, frame(m3)),
                                          !.stack_top = @ + f.register_count],
                        ok |-> TRUE]
          \* registers = vm->stack_top, nulled, then the arguments copied in
          Copy(m2) == Enter(IF caller # 0 /\ arg_count > 0
                            THEN CopyArgs(m2, m2.stack_top, m.frames[caller].registers,
                                          SubSeq(arg_registers, 1, arg_count), 1,
                                          m.stack, junk)
                            ELSE m2)
          Clear(m1) == Copy([m1 EXCEPT !.stack = NullFill(@, m1.stack_top, f.register_count)])
      IN Clear(ensure_stack_capacity(ensure_frame_capacity(m, 1), f.register_count, moved))

\* the bytes of "constructor"
ConstructorName == <<99, 111, 110, 115, 116, 114, 117, 99, 116, 111, 114>>

\* call_value without its last arm: a value of any other kind is taken as called
call_value_CallsAnything(m, caller, dest_reg, callee, arg_count, arg_registers, moved, junk) ==
    LET caller_registers == m.frames[caller].registers
        extended == <<dest_reg>> \o SubSeq(arg_registers, 1, arg_count)
    IN
    IF value_is_bound_method(m.mem, callee) THEN
        LET bound == m.mem[value_as_obj(callee)]
            function == bound.method
        IN IF arg_count # (m.mem[function].arity - 1) % 256
           THEN [vm |-> runtime_error(m), ok |-> FALSE]
           ELSE call_function(RegWrite(m, caller_registers, dest_reg, bound.receiver),
                              caller, function, dest_reg, (arg_count + 1) % 256,
                              extended, moved, junk)
    ELSE IF value_is_class(m.mem, callee) THEN
        LET klass == value_as_obj(callee)
            Construct(m2, found) ==
                IF found # 0 THEN
                   LET method_value == m2.mem[klass].methods[found].value IN
                   IF ~value_is_function(m2.mem, method_value)
                   THEN [vm |-> runtime_error(m2), ok |-> FALSE]
                   ELSE IF (arg_count + 1) % 256
                           # m2.mem[value_as_obj(method_value)].arity % 256
                   THEN [vm |-> runtime_error(m2), ok |-> FALSE]
                   ELSE call_function(m2, caller, value_as_obj(method_value), dest_reg,
                                      (arg_count + 1) % 256, extended, moved, junk)
                ELSE IF arg_count > 0 THEN [vm |-> runtime_error(m2), ok |-> FALSE]
                ELSE [vm |-> m2, ok |-> TRUE]
            \* the copy's vm_push may have moved the stack under the caller
            Find(ctor) == Construct(ctor.vm, obj_class_find_method(ctor.vm, klass, ctor.ret))
            Store(inst) ==
                Find(obj_string_copy(RegWrite(inst.vm, caller_registers, dest_reg,
                                              value_make_obj(inst.ret)),
                                     ConstructorName, moved))
        IN Store(obj_instance_new(m, klass))
    ELSE IF value_is_function(m.mem, callee) THEN
        call_function(m, caller, value_as_obj(callee), dest_reg, arg_count,
                      arg_registers, moved, junk)
    ELSE [vm |-> m, ok |-> TRUE]

\* call_value.  `caller` is never NULL here: run passes its current frame.
call_value(m, caller, dest_reg, callee, arg_count, arg_registers, moved, junk) ==
    LET caller_registers == m.frames[caller].registers
        extended == <<dest_reg>> \o SubSeq(arg_registers, 1, arg_count)
    IN
    IF value_is_bound_method(m.mem, callee) THEN
        LET bound == m.mem[value_as_obj(callee)]
            function == bound.method
        IN IF arg_count # (m.mem[function].arity - 1) % 256
           THEN [vm |-> runtime_error(m), ok |-> FALSE]
           ELSE call_function(RegWrite(m, caller_registers, dest_reg, bound.receiver),
                              caller, function, dest_reg, (arg_count + 1) % 256,
                              extended, moved, junk)
    ELSE IF value_is_class(m.mem, callee) THEN
        LET klass == value_as_obj(callee)
            Construct(m2, found) ==
                IF found # 0 THEN
                   LET method_value == m2.mem[klass].methods[found].value IN
                   IF ~value_is_function(m2.mem, method_value)
                   THEN [vm |-> runtime_error(m2), ok |-> FALSE]
                   ELSE IF (arg_count + 1) % 256
                           # m2.mem[value_as_obj(method_value)].arity % 256
                   THEN [vm |-> runtime_error(m2), ok |-> FALSE]
                   ELSE call_function(m2, caller, value_as_obj(method_value), dest_reg,
                                      (arg_count + 1) % 256, extended, moved, junk)
                ELSE IF arg_count > 0 THEN [vm |-> runtime_error(m2), ok |-> FALSE]
                ELSE [vm |-> m2, ok |-> TRUE]
            \* the copy's vm_push may have moved the stack under the caller
            Find(ctor) == Construct(ctor.vm, obj_class_find_method(ctor.vm, klass, ctor.ret))
            Store(inst) ==
                Find(obj_string_copy(RegWrite(inst.vm, caller_registers, dest_reg,
                                              value_make_obj(inst.ret)),
                                     ConstructorName, moved))
        IN Store(obj_instance_new(m, klass))
    ELSE IF value_is_function(m.mem, callee) THEN
        call_function(m, caller, value_as_obj(callee), dest_reg, arg_count,
                      arg_registers, moved, junk)
    ELSE [vm |-> runtime_error(m), ok |-> FALSE]

\* concatenate: the bytes of left followed by the bytes of right, interned.
concatenate(m, left, right, moved) ==
    obj_string_take(m, m.mem[value_as_obj(left)].chars \o m.mem[value_as_obj(right)].chars, moved)

\* ------------------------------------------------------------ bytecode (chunk.h)
\* One byte per opcode; only the opcodes' being distinct matters.
OpNames == <<"OP_LOAD_CONST", "OP_LOAD_NULL", "OP_LOAD_TRUE", "OP_LOAD_FALSE", "OP_MOVE",
             "OP_ADD", "OP_SUBTRACT", "OP_MULTIPLY", "OP_DIVIDE", "OP_NEGATE", "OP_NOT",
             "OP_EQUAL", "OP_GREATER", "OP_LESS", "OP_JUMP", "OP_JUMP_IF_FALSE", "OP_LOOP",
             "OP_CALL", "OP_RETURN", "OP_GET_GLOBAL", "OP_DEFINE_GLOBAL", "OP_SET_GLOBAL",
             "OP_BUILD_ARRAY", "OP_ARRAY_GET", "OP_GET_PROPERTY", "OP_SET_PROPERTY",
             "OP_CLASS", "OP_METHOD", "OP_INVOKE">>
Op(name) == (CHOOSE i \in 1..Len(OpNames) : OpNames[i] = name) - 1

Hi(x) == (x \div 256) % 256
Lo(x) == x % 256

\* the instructions as the chunk writers lay them out
I_LOAD_CONST(dest, index) == <<Op("OP_LOAD_CONST"), dest, Hi(index), Lo(index)>>
I_MOVE(dest, src) == <<Op("OP_MOVE"), dest, src>>
I_ADD(dest, left, right) == <<Op("OP_ADD"), dest, left, right>>
I_CALL(dest, callee, args) == <<Op("OP_CALL"), dest, callee, Len(args)>> \o args
I_RETURN(src) == <<Op("OP_RETURN"), src>>
I_GET_GLOBAL(dest, slot) == <<Op("OP_GET_GLOBAL"), dest, Hi(slot), Lo(slot)>>
I_DEFINE_GLOBAL(src, slot) == <<Op("OP_DEFINE_GLOBAL"), src, Hi(slot), Lo(slot)>>
I_SET_GLOBAL(src, slot) == <<Op("OP_SET_GLOBAL"), src, Hi(slot), Lo(slot)>>
I_BUILD_ARRAY(dest, elements) == <<Op("OP_BUILD_ARRAY"), dest, Len(elements)>> \o elements
I_ARRAY_GET(dest, array, index) == <<Op("OP_ARRAY_GET"), dest, array, index>>
I_EQUAL(dest, left, right) == <<Op("OP_EQUAL"), dest, left, right>>
I_GET_PROPERTY(dest, object, name) == <<Op("OP_GET_PROPERTY"), dest, object, Hi(name), Lo(name)>>
I_SET_PROPERTY(object, name, value) == <<Op("OP_SET_PROPERTY"), object, Hi(name), Lo(name), value>>
I_CLASS(dest, name) == <<Op("OP_CLASS"), dest, Hi(name), Lo(name)>>
I_METHOD(class, name, method) == <<Op("OP_METHOD"), class, Hi(name), Lo(name), method>>
I_INVOKE(dest, object, name, args) ==
    <<Op("OP_INVOKE"), dest, object, Hi(name), Lo(name), Len(args)>> \o args

chunk_get_constant(chunk_constants, index) == chunk_constants[index + 1]

\* ------------------------------------------------------------ programs
\* The functions the embedder hands to the VM, built the way the tests
\* build them (obj_function_new, chunk_write, chunk_add_constant) and laid
\* out as the compiler lays out the source shown with each.
Str_f == <<102>>
Str_id == <<105, 100>>
Str_K == <<75>>
Str_m == <<109>>
Str_value == <<118, 97, 108, 117, 101>>
Str_a == <<97>>
Str_b == <<98>>

KNum(n) == [k |-> "number", v |-> n, s |-> << >>]
KStr(chars) == [k |-> "string", v |-> 0, s |-> chars]
KFn(i) == [k |-> "function", v |-> i, s |-> << >>]
KDouble(n, part) == [k |-> "double", v |-> n, s |-> << >>, part |-> part]

Fn(name, arity, register_count, code, constants) ==
    [name |-> name, arity |-> arity, register_count |-> register_count,
     code |-> code, constants |-> constants]

RECURSIVE Flat(_)
Flat(ss) == IF ss = << >> THEN << >> ELSE Head(ss) \o Flat(Tail(ss))

\* function f(p0 .. p_{a-1}) { return p_{a-1}; }  f(3, 4) with n arguments
ProgCall(p) ==
    <<Fn(Str_f, p.a, IF p.a = 0 THEN 1 ELSE p.a,
         I_RETURN(IF p.a = 0 THEN 0 ELSE p.a - 1), << >>),
      Fn(NoName, 0, p.rc,
         Flat(<<I_LOAD_CONST(0, 0), I_DEFINE_GLOBAL(0, 0), I_GET_GLOBAL(0, 0),
                I_LOAD_CONST(1, 1), I_LOAD_CONST(2, 2),
                I_CALL(0, 0, SubSeq(<<1, 2>>, 1, p.n)), I_RETURN(0)>>),
         <<KFn(1), KNum(3), KNum(4)>>)>>

\* function id(v) { return v; }
\* class K { constructor(s) { this.value = s; }  m(n) { return id(n); } }
\* let o = K(7 ...);  o.m(5 ...)   -- or, with p.get:  let b = o.m;  b(5 ...)
ProgClass(p) ==
    <<Fn(Str_id, 1, 1, I_RETURN(0), << >>),
      Fn(ConstructorName, 2, 2, I_SET_PROPERTY(0, 0, 1) \o I_RETURN(0), <<KStr(Str_value)>>),
      Fn(Str_m, 2, 4,
         Flat(<<I_GET_GLOBAL(2, 0), I_MOVE(3, 1), I_CALL(2, 2, <<3>>), I_RETURN(2)>>), << >>),
      Fn(NoName, 0, p.rc,
         Flat(<<I_LOAD_CONST(0, 0), I_DEFINE_GLOBAL(0, 0),
                I_CLASS(0, 1)>>
              \o (IF p.ctor THEN <<I_LOAD_CONST(1, 2), I_METHOD(0, 3, 1)>> ELSE << >>)
              \o <<I_LOAD_CONST(1, 4), I_METHOD(0, 5, 1), I_DEFINE_GLOBAL(0, 1),
                   I_GET_GLOBAL(0, 1), I_LOAD_CONST(1, 6), I_LOAD_CONST(2, 7),
                   I_CALL(0, 0, SubSeq(<<1, 2>>, 1, p.a)),
                   I_DEFINE_GLOBAL(0, 2),
                   I_LOAD_CONST(1, 6), I_LOAD_CONST(2, 7)>>
              \o (IF p.get
                  THEN <<I_GET_PROPERTY(0, 0, 5), I_DEFINE_GLOBAL(0, 3), I_GET_GLOBAL(0, 3),
                         I_CALL(0, 0, SubSeq(<<1, 2>>, 1, p.n))>>
                  ELSE <<I_INVOKE(0, 0, 5, SubSeq(<<1, 2>>, 1, p.n))>>)
              \o <<I_RETURN(0)>>),
         <<KFn(1), KStr(Str_K), KFn(2), KStr(ConstructorName), KFn(3), KStr(Str_m),
           KNum(7), KNum(8)>>)>>

\* let s = "a" + "b";  let xs = [ "a", s ];  "b" + "b";  s + p.a   (p.a = 1: s + 1)
ProgData(p) ==
    <<Fn(NoName, 0, p.rc,
         Flat(<<I_LOAD_CONST(0, 0), I_LOAD_CONST(1, 1), I_ADD(2, 0, 1),
                I_BUILD_ARRAY(3, <<0, 2>>), I_DEFINE_GLOBAL(3, 0),
                I_ADD(0, 1, 1), I_LOAD_CONST(1, IF p.a = 1 THEN 2 ELSE 0),
                I_ADD(2, 2, 1), I_RETURN(2)>>),
         <<KStr(Str_a), KStr(Str_b), KNum(1)>>)>>

\* [let g<a> = 3;]  [g<n> = 4;]  g<n>    -- g<i> the global of slot i; the let
\* is there when p.ctor, the assignment when p.get
ProgGlobal(p) ==
    <<Fn(NoName, 0, p.rc,
         Flat(<<I_LOAD_CONST(0, 0)>>
              \o (IF p.ctor THEN <<I_DEFINE_GLOBAL(0, p.a)>> ELSE << >>)
              \o <<I_LOAD_CONST(1, 1)>>
              \o (IF p.get THEN <<I_SET_GLOBAL(1, p.n)>> ELSE << >>)
              \o <<I_GET_GLOBAL(2, p.n), I_RETURN(2)>>),
         <<KNum(3), KNum(4)>>)>>

\* class K { }  let o = K();  let v = <value p.a>;  then, with n arguments,
\*   v(7 ...)                          -- neither p.ctor nor p.get
\*   o.f = v;  o.f(7 ...)              -- p.ctor: INVOKE finds v as a field
\*   K.f := v;  o.f(7 ...)             -- p.ctor and p.get: as a method of o's class
\*   K.f := v;  K.f(7 ...)             -- p.get: as a method of the class invoked on
\* (K.f := v is OP_METHOD, which stores any value).  The values: a number,
\* a string, true, null, an array, the instance o, and the function
\* function f() { } for comparison.
CalleeValues == <<"number", "string", "bool", "null", "array", "instance", "function">>
ProgCallee(p) ==
    <<Fn(Str_f, 0, 1, I_RETURN(0), << >>),
      Fn(NoName, 0, p.rc,
         Flat(<<I_CLASS(0, 0), I_CALL(1, 0, << >>), I_LOAD_CONST(3, 1)>>
              \o <<CASE CalleeValues[p.a + 1] = "number" -> I_LOAD_CONST(2, 1)
                     [] CalleeValues[p.a + 1] = "string" -> I_LOAD_CONST(2, 2)
                     [] CalleeValues[p.a + 1] = "bool" -> <<Op("OP_LOAD_TRUE"), 2>>
                     [] CalleeValues[p.a + 1] = "null" -> <<Op("OP_LOAD_NULL"), 2>>
                     [] CalleeValues[p.a + 1] = "array" -> I_BUILD_ARRAY(2, <<3>>)
                     [] CalleeValues[p.a + 1] = "instance" -> I_MOVE(2, 1)
                     [] CalleeValues[p.a + 1] = "function" -> I_LOAD_CONST(2, 4)>>
              \o (IF p.ctor /\ ~p.get THEN <<I_SET_PROPERTY(1, 3, 2)>>
                  ELSE IF p.get THEN <<I_METHOD(0, 3, 2)>>
                  ELSE << >>)
              \o <<IF ~p.ctor /\ ~p.get THEN I_CALL(4, 2, SubSeq(<<3>>, 1, p.n))
                   ELSE I_INVOKE(4, IF p.ctor THEN 1 ELSE 0, 3, SubSeq(<<3>>, 1, p.n)),
                   I_RETURN(4)>>),
         <<KStr(Str_K), KNum(7), KStr(Str_a), KStr(Str_f), KFn(1)>>)>>

\* let xs = [7];  xs = xs + xs;  ... (p.n times)  xs
RECURSIVE Repeat(_, _)
Repeat(code, n) == IF n = 0 THEN << >> ELSE code \o Repeat(code, n - 1)
ProgArrays(p) ==
    <<Fn(NoName, 0, p.rc,
         Flat(<<I_LOAD_CONST(0, 0), I_BUILD_ARRAY(1, <<0>>), Repeat(I_ADD(1, 1, 1), p.n),
                I_RETURN(1)>>),
         <<KNum(7)>>)>>

\* <left p.a> + <right p.n>, the operands a number (3, 4), a string ("a",
\* "b"), an array ([3], [4]) or null
AddOperands == <<"number", "string", "array", "null">>
LoadOperand(kind, reg) ==
    CASE kind = "number" -> I_LOAD_CONST(reg, reg)
      [] kind = "string" -> I_LOAD_CONST(reg, 2 + reg)
      [] kind = "array" -> I_LOAD_CONST(reg, reg) \o I_BUILD_ARRAY(reg, <<reg>>)
      [] kind = "null" -> <<Op("OP_LOAD_NULL"), reg>>
ProgAdd(p) ==
    <<Fn(NoName, 0, p.rc,
         Flat(<<LoadOperand(AddOperands[p.a + 1], 0), LoadOperand(AddOperands[p.n + 1], 1),
                I_ADD(2, 0, 1), I_RETURN(2)>>),
         <<KNum(3), KNum(4), KStr(Str_a), KStr(Str_b)>>)>>

\* let xs = <operand p.a>;  xs[<index p.n>]   -- the operand [7, 8], [], 7,
\* "a" or null; the index one of IndexConstants, or null, true or [7]
IndexOperands == <<"array", "empty", "number", "string", "null">>
IndexConstants ==
    <<KNum(0), KNum(1), KNum(2), KNum(-1), KDouble(0, "half"), KDouble(1, "half"),
      KDouble(-1, "half"), KDouble(0, "big"), KDouble(0, "size_max"), KDouble(0, "huge"),
      KDouble(0, "nan"), KStr(Str_a)>>
IndexKinds == Len(IndexConstants) + 3
ProgIndex(p) ==
    <<Fn(NoName, 0, p.rc,
         Flat(<<I_LOAD_CONST(0, 0), I_LOAD_CONST(1, 1),
                CASE IndexOperands[p.a + 1] = "array" -> I_BUILD_ARRAY(2, <<0, 1>>)
                  [] IndexOperands[p.a + 1] = "empty" -> I_BUILD_ARRAY(2, << >>)
                  [] IndexOperands[p.a + 1] = "number" -> I_MOVE(2, 0)
                  [] IndexOperands[p.a + 1] = "string" ->
                         I_LOAD_CONST(2, 1 + Len(IndexConstants))
                  [] IndexOperands[p.a + 1] = "null" -> <<Op("OP_LOAD_NULL"), 2>>,
                IF p.n < Len(IndexConstants) THEN I_LOAD_CONST(3, 2 + p.n)
                ELSE IF p.n = Len(IndexConstants) THEN <<Op("OP_LOAD_NULL"), 3>>
                ELSE IF p.n = Len(IndexConstants) + 1 THEN <<Op("OP_LOAD_TRUE"), 3>>
                ELSE I_BUILD_ARRAY(3, <<0>>),
                I_ARRAY_GET(4, 2, 3), I_RETURN(4)>>),
         <<KNum(7), KNum(8)>> \o IndexConstants)>>

\* function f() { }  <left p.a> == <right p.n>, or with p.get
\* let l = <left p.a>; l == l.  The operands: null, true, false, 3, 4, 0.5,
\* NaN, "a", "b", an array [3] (a new one each time) and f.
EqualOperands ==
    <<"null", "true", "false", "3", "4", "half", "nan", "a", "b", "array", "function">>
LoadEqualOperand(kind, reg) ==
    CASE kind = "null" -> <<Op("OP_LOAD_NULL"), reg>>
      [] kind = "true" -> <<Op("OP_LOAD_TRUE"), reg>>
      [] kind = "false" -> <<Op("OP_LOAD_FALSE"), reg>>
      [] kind = "3" -> I_LOAD_CONST(reg, 0)
      [] kind = "4" -> I_LOAD_CONST(reg, 1)
      [] kind = "half" -> I_LOAD_CONST(reg, 2)
      [] kind = "nan" -> I_LOAD_CONST(reg, 3)
      [] kind = "a" -> I_LOAD_CONST(reg, 4)
      [] kind = "b" -> I_LOAD_CONST(reg, 5)
      [] kind = "array" -> I_LOAD_CONST(reg, 0) \o I_BUILD_ARRAY(reg, <<reg>>)
      [] kind = "function" -> I_LOAD_CONST(reg, 6)
ProgEqual(p) ==
    <<Fn(Str_f, 0, 1, I_RETURN(0), << >>),
      Fn(NoName, 0, p.rc,
         Flat(<<LoadEqualOperand(EqualOperands[p.a + 1], 0),
                IF p.get THEN I_MOVE(1, 0) ELSE LoadEqualOperand(EqualOperands[p.n + 1], 1),
                I_EQUAL(2, 0, 1), I_RETURN(2)>>),
         <<KNum(3), KNum(4), KDouble(0, "half"), KDouble(0, "nan"), KStr(Str_a), KStr(Str_b),
           KFn(1)>>)>>

\* function f(v) { return v; }
\* class K { m(v) { return v; } }  let o = K();  [o.m = f;]
\* then, with n arguments out of 7, 8 and the receiver o (p.a = 0) or K (p.a = 1):
\*   recv.m(7 ...)                     -- INVOKE
\*   let b = recv.m;  b(7 ...)         -- p.get: GET_PROPERTY, then CALL
\* The field m is set when p.ctor.
ProgInvoke(p) ==
    <<Fn(Str_f, 1, 2, I_RETURN(0), << >>),
      Fn(Str_m, 2, 3, I_RETURN(1), << >>),
      Fn(NoName, 0, p.rc,
         Flat(<<I_CLASS(0, 0), I_LOAD_CONST(2, 1), I_METHOD(0, 2, 2), I_CALL(1, 0, << >>)>>
              \o (IF p.ctor THEN <<I_LOAD_CONST(2, 3), I_SET_PROPERTY(1, 2, 2)>> ELSE << >>)
              \o <<I_LOAD_CONST(3, 4), I_LOAD_CONST(4, 5)>>
              \o (IF p.get
                  THEN <<I_GET_PROPERTY(5, 1 - p.a, 2),
                         I_CALL(5, 5, SubSeq(<<3, 4>>, 1, p.n))>>
                  ELSE <<I_INVOKE(5, 1 - p.a, 2, SubSeq(<<3, 4>>, 1, p.n))>>)
              \o <<I_RETURN(5)>>),
         <<KStr(Str_K), KFn(2), KStr(Str_m), KFn(1), KNum(7), KNum(8)>>)>>

\* The script of the cyclic object graphs:
\*   class K { m(v) { return v; } }
\*   let o = K();
\*   o.value = o;            -- p.ctor: the instance holds itself
\*   o.a = [o, o];           -- p.get: an array of the instance, held by it
\*   o.b = o.m;              -- p.n = 1: a bound method of the instance, held by it
\*   (global 0) = o;         -- p.a = 1
\*   return o;
ProgCycle(p) ==
    <<Fn(Str_m, 1, 2, I_RETURN(1), << >>),
      Fn(NoName, 0, p.rc,
         Flat(<<I_CLASS(0, 0), I_LOAD_CONST(2, 1), I_METHOD(0, 2, 2), I_CALL(1, 0, << >>)>>
              \o (IF p.ctor THEN <<I_SET_PROPERTY(1, 3, 1)>> ELSE << >>)
              \o (IF p.get THEN <<I_BUILD_ARRAY(3, <<1, 1>>), I_SET_PROPERTY(1, 4, 3)>>
                  ELSE << >>)
              \o (IF p.n = 1 THEN <<I_GET_PROPERTY(4, 1, 2), I_SET_PROPERTY(1, 5, 4)>>
                  ELSE << >>)
              \o (IF p.a = 1 THEN <<I_DEFINE_GLOBAL(1, 0)>> ELSE << >>)
              \o <<I_RETURN(1)>>),
         <<KStr(Str_K), KFn(1), KStr(Str_m), KStr(Str_value), KStr(Str_a), KStr(Str_b)>>)>>

Prog(p) ==
    CASE p.kind = "call" -> ProgCall(p)
      [] p.kind = "equal" -> ProgEqual(p)
      [] p.kind = "index" -> ProgIndex(p)
      [] p.kind = "add" -> ProgAdd(p)
      [] p.kind = "arrays" -> ProgArrays(p)
      [] p.kind = "callee" -> ProgCallee(p)
      [] p.kind = "global" -> ProgGlobal(p)
      [] p.kind = "class" -> ProgClass(p)
      [] p.kind = "data" -> ProgData(p)
      [] p.kind = "invoke" -> ProgInvoke(p)
      [] p.kind = "cycle" -> ProgCycle(p)

\* kind, callee arity / constructor argument count a, argument count n,
\* with constructor, bound method fetched with GET_PROPERTY, script registers
Param(kind, a, n, ctor, get, rc) ==
    [kind |-> kind, a |-> a, n |-> n, ctor |-> ctor, get |-> get, rc |-> rc]
NoProgram == Param("none", 0, 0, FALSE, FALSE, 0)

\* Every pairing of arity and argument count; the script of 255 registers
\* (whose window ends where the first stack block ends) where the call goes
\* through; the method call in every form behind each constructor call
\* that succeeds; a global read, with or without an assignment before it,
\* on a slot that is defined, on one below a defined slot, on one above it
\* and on a VM with no global.
Programs ==
    {Param("call", a, n, FALSE, FALSE, 3) : a \in 0..2, n \in 0..2}
    \cup {Param("call", a, a, FALSE, FALSE, UINT8_MAX) : a \in 0..2}
    \cup {Param("class", a, 1, ctor, FALSE, 4) : a \in 0..2, ctor \in BOOLEAN}
    \cup {Param("class", IF ctor THEN 1 ELSE 0, n, ctor, get, rc) :
              n \in 0..2, ctor \in BOOLEAN, get \in BOOLEAN, rc \in {4, UINT8_MAX}}
    \cup {Param("data", a, 0, FALSE, FALSE, rc) : a \in 0..1, rc \in {4, UINT8_MAX}}
    \cup {Param("global", a, n, def, set, 3) :
              a \in 0..1, n \in 0..1, def \in BOOLEAN, set \in BOOLEAN}

CalleePrograms ==
    {Param("callee", a, n, ctor, get, 5) :
        a \in 0..(Len(CalleeValues) - 1), n \in 0..1, ctor \in BOOLEAN, get \in BOOLEAN}

\* the cyclic graphs, with and without each of the three cycles, rooted in a
\* global or not
CyclePrograms ==
    {Param("cycle", a, n, ctor, get, 5) :
        a \in 0..1, n \in 0..1, ctor \in BOOLEAN, get \in BOOLEAN}

\* Both receivers, with and without the field, in both forms, with every
\* number of arguments up to 2.
InvokePrograms ==
    {Param("invoke", a, n, ctor, get, 6) :
        a \in 0..1, n \in 0..2, ctor \in BOOLEAN, get \in BOOLEAN}

\* Up to MaxDoublings additions of an array to itself: arrays of 1, 2, 4, ...
\* elements are allocated, all but the last of them garbage.
MaxDoublings == 5
ArrayPrograms == {Param("arrays", 0, n, FALSE, FALSE, 2) : n \in 0..MaxDoublings}

\* Every pairing of operand kinds, in a script of 3 registers and in one of
\* 255 (whose window ends where the first stack block ends).
AddPrograms ==
    {Param("add", a, n, FALSE, FALSE, rc) :
        a \in 0..(Len(AddOperands) - 1), n \in 0..(Len(AddOperands) - 1),
        rc \in {3, UINT8_MAX}}

\* Every operand with every index.
IndexPrograms ==
    {Param("index", a, n, FALSE, FALSE, 5) :
        a \in 0..(Len(IndexOperands) - 1), n \in 0..(IndexKinds - 1)}

\* Every pairing of operands, and every operand with itself.
EqualPrograms ==
    {Param("equal", a, n, FALSE, FALSE, 3) :
        a \in 0..(Len(EqualOperands) - 1), n \in 0..(Len(EqualOperands) - 1)}
    \cup {Param("equal", a, a, FALSE, TRUE, 3) : a \in 0..(Len(EqualOperands) - 1)}

\* Building the functions of a program, callees first, the script last.
RECURSIVE LoadConstants(_, _, _, _, _)
LoadConstants(m, function, constants, i, addrs) ==
    IF m.ub \/ i > Len(constants) THEN m
    ELSE LET c == constants[i]
             String(st) ==
                 LoadConstants([st.vm EXCEPT !.mem[function].constants =
                                                 Append(@, value_make_obj(st.ret))],
                               function, constants, i + 1, addrs)
         IN IF c.k = "string"
            THEN String(obj_string_copy(m, c.s, FALSE))
            ELSE LoadConstants([m EXCEPT !.mem[function].constants =
                                   Append(@, IF c.k = "function"
                                             THEN value_make_obj(addrs[c.v])
                                             ELSE IF c.k = "double"
                                             THEN value_make_double(c.v, c.part)
                                             ELSE value_make_number(c.v))],
                               function, constants, i + 1, addrs)

RECURSIVE LoadFunctions(_, _, _, _)
LoadFunctions(m, fns, i, addrs) ==
    IF m.ub \/ i > Len(fns) THEN [vm |-> m, ret |-> addrs[Len(addrs)]]
    ELSE LET Function(al) ==
                 LoadFunctions(
                     LoadConstants([al.vm EXCEPT
                                       !.mem[al.ret].register_count = fns[i].register_count,
                                       !.mem[al.ret].code = fns[i].code],
                                   al.ret, fns[i].constants, 1, addrs),
                     fns, i + 1, Append(addrs, al.ret))
         IN Function(obj_function_new(m, fns[i].name, fns[i].arity, FALSE))

\* the cells a program's functions, names and string constants can take
RECURSIVE CellsOf(_, _)
CellsOf(fns, i) ==
    IF i > Len(fns) THEN 0
    ELSE 1 + (IF fns[i].name = NoName THEN 0 ELSE 1)
           + Cardinality({j \in 1..Len(fns[i].constants) : fns[i].constants[j].k = "string"})
           + CellsOf(fns, i + 1)

\* ------------------------------------------------------------ the compiler (compiler.c)
\* The parser's trees.  Every node has the same fields; a statement that
\* holds statements has them in `body` (a block's statements, the then
\* branch of an if) and `els` (the else branch, if any).
Str_x == <<120>>
Str_this == <<116, 104, 105, 115>>
Str_script == <<115, 99, 114, 105, 112, 116>>

Expr(kind, name) == [kind |-> kind, name |-> name]
NoExpr == Expr("none", << >>)
ExprNull == Expr("EXPR_LITERAL_NULL", << >>)
ExprThis == Expr("EXPR_THIS", << >>)
ExprIdentifier(name) == Expr("EXPR_IDENTIFIER", name)
\* the literals that carry a value
ExprNumber(n) == [kind |-> "EXPR_LITERAL_NUMBER", name |-> << >>, value |-> n]
ExprBool(b) == [kind |-> "EXPR_LITERAL_BOOL", name |-> << >>, value |-> b]
ExprString(chars) == [kind |-> "EXPR_LITERAL_STRING", name |-> << >>, value |-> chars]
\* the expressions that hold expressions
ExprUnary(operator_type, right) ==
    [kind |-> "EXPR_UNARY", name |-> << >>, operator_type |-> operator_type, right |-> right]
ExprBinary(left, operator_type, right) ==
    [kind |-> "EXPR_BINARY", name |-> << >>, operator_type |-> operator_type,
     left |-> left, right |-> right]
ExprAssignment(name, value) == [kind |-> "EXPR_ASSIGNMENT", name |-> name, value |-> value]
ExprCall(callee, arguments) ==
    [kind |-> "EXPR_CALL", name |-> << >>, callee |-> callee, arguments |-> arguments]

Node(kind, name, has, expr, body, els, at) ==
    [kind |-> kind, name |-> name, has |-> has, expr |-> expr, body |-> body,
     els |-> els, at |-> at]
LetStmt(name, has_initializer, initializer) ==
    Node("STMT_LET", name, has_initializer, initializer, << >>, << >>, 0)
ExprStmt(expression) == Node("STMT_EXPRESSION", << >>, FALSE, expression, << >>, << >>, 0)
ReturnStmt(has_value, value) == Node("STMT_RETURN", << >>, has_value, value, << >>, << >>, 0)
BlockStmt(statements) == Node("STMT_BLOCK", << >>, FALSE, NoExpr, statements, << >>, 0)
IfStmt(condition, then_branch, else_branch) ==
    Node("STMT_IF", << >>, FALSE, condition, <<then_branch>>, else_branch, 0)
WhileStmt(condition, body) ==
    Node("STMT_WHILE", << >>, FALSE, condition, <<body>>, << >>, 0)
ClassStmt(name) == Node("STMT_CLASS", name, FALSE, NoExpr, << >>, << >>, 0)
\* where the compiler is to go on once the statements before it are done
Then(kind, at, els) == Node(kind, << >>, FALSE, NoExpr, << >>, els, at)
\* the same for a loop, which also keeps where it started
After(kind, at, loop_start) == Node(kind, <<loop_start>>, FALSE, NoExpr, << >>, << >>, at)

\* struct Compiler.  local_count is Len(locals); the chunk and the
\* register count are the function's (vm.mem[function]).
compiler_init(enclosing, function, type) ==
    [enclosing |-> enclosing, function |-> function, locals |-> << >>, scope_depth |-> 0,
     has_pending_expression |-> FALSE, stack_depth |-> 0, pending_has_value |-> FALSE,
     pending_value |-> -1, type |-> type]

\* The helpers below take and return k: the compiler at work (k.c), the VM
\* (k.vm), the table of global names (k.globals), the error message
\* (k.error, "" while *error_message is NULL), whether every call so
\* far returned true (k.ok) and whether a call has ended the process with
\* exit(EXIT_FAILURE) (k.exited; nothing done to k after that matters).
Compiling(c, m, globals, error) ==
    [c |-> c, vm |-> m, globals |-> globals, error |-> error, ok |-> TRUE, exited |-> FALSE]

\* compiler_errorf keeps the first message
compiler_errorf(k, message) == [k EXCEPT !.error = IF @ = "" THEN message ELSE @]
Reject(k, message) == [compiler_errorf(k, message) EXCEPT !.ok = FALSE]

local_count(k) == Len(k.c.locals)
Emit(k, bytes) == [k EXCEPT !.vm.mem[k.c.function].code = @ \o bytes]
chunk_count(k) == Len(k.vm.mem[k.c.function].code)

\* update_register_usage without the limit of UINT8_MAX registers
update_register_usage_NoLimit(k) ==
    LET total == local_count(k) + k.c.stack_depth
    IN [k EXCEPT !.vm.mem[k.c.function].register_count = IF total > @ THEN total ELSE @]

update_register_usage(k) ==
    LET total == local_count(k) + k.c.stack_depth
        k1 == [k EXCEPT !.vm.mem[k.c.function].register_count =
                            IF total > @ THEN total ELSE @]
    IN IF k1.vm.mem[k.c.function].register_count > UINT8_MAX
       THEN Reject(k1, "Function requires more than 255 registers.")
       ELSE k1

stack_base(k) == local_count(k)
stack_register(k, depth_index) == stack_base(k) + depth_index
stack_top_register(k, distance) == stack_register(k, k.c.stack_depth - 1 - distance)

\* push_stack_slot: the slot handed out is stack_register(k, stack_depth)
\* of the compiler before the push
push_stack_slot(k) == update_register_usage([k EXCEPT !.c.stack_depth = @ + 1])
pop_stack_slots(k, count) ==
    [k EXCEPT !.c.stack_depth = IF @ - count < 0 THEN 0 ELSE @ - count]

\* chunk_add_constant: the value is written, and then a chunk that holds
\* UINT16_MAX constants or more ends the process
chunk_add_constant(k, value) ==
    LET Written(k1) ==
            IF Len(k1.vm.mem[k1.c.function].constants) >= UINT16_MAX
            THEN [k1 EXCEPT !.ok = FALSE, !.exited = TRUE]
            ELSE k1
    IN Written([k EXCEPT !.vm.mem[k.c.function].constants = Append(@, value)])
\* the index chunk_add_constant returns
ConstantIndex(k) == Len(k.vm.mem[k.c.function].constants)

I_LOAD_NULL(dest) == <<Op("OP_LOAD_NULL"), dest>>
I_LOAD_TRUE(dest) == <<Op("OP_LOAD_TRUE"), dest>>
I_LOAD_FALSE(dest) == <<Op("OP_LOAD_FALSE"), dest>>
I_JUMP(offset) == <<Op("OP_JUMP"), Hi(offset), Lo(offset)>>
I_JUMP_IF_FALSE(condition, offset) == <<Op("OP_JUMP_IF_FALSE"), condition, Hi(offset), Lo(offset)>>

emit_op_load_constant(k, dest, value) ==
    Emit(chunk_add_constant(k, value), I_LOAD_CONST(dest, ConstantIndex(k)))
emit_op_load_null(k, dest) == Emit(k, I_LOAD_NULL(dest))
emit_op_load_bool(k, dest, value) ==
    Emit(k, IF value THEN I_LOAD_TRUE(dest) ELSE I_LOAD_FALSE(dest))
emit_op_move(k, dest, src) == Emit(k, I_MOVE(dest, src))
emit_op_unary(k, opcode, dest, operand) == Emit(k, <<Op(opcode), dest, operand>>)
emit_op_binary(k, opcode, dest, left, right) == Emit(k, <<Op(opcode), dest, left, right>>)
emit_op_set_global(k, src, slot) == Emit(k, I_SET_GLOBAL(src, slot))
emit_op_get_global(k, dest, slot) == Emit(k, I_GET_GLOBAL(dest, slot))
emit_op_define_global(k, src, slot) == Emit(k, I_DEFINE_GLOBAL(src, slot))
emit_op_class(k, dest, name_index) == Emit(k, I_CLASS(dest, name_index))
emit_op_method(k, class_reg, name_index, method_reg) ==
    Emit(k, I_METHOD(class_reg, name_index, method_reg))
emit_return_value(k, reg) == Emit(k, I_RETURN(reg))

\* make_string_constant: the string is on the VM's stack while the
\* constant is added; ConstantIndex of the compiler before is its index
make_string_constant(k, text) ==
    LET Add(st, value) ==
            chunk_add_constant([k EXCEPT !.vm = vm_push(st.vm, value, FALSE)], value)
        Make(st) == [Add(st, value_make_obj(st.ret)) EXCEPT !.vm = vm_pop(@)]
    IN Make(obj_string_copy(k.vm, text, FALSE))

\* emit_jump_unconditional / emit_jump_if_false: the operand is 0xFFFF until patched
emit_jump_unconditional(k) == Emit(k, I_JUMP(65535))
emit_jump_if_false(k, condition_reg) == Emit(k, I_JUMP_IF_FALSE(condition_reg, 65535))
\* what the two return: the offset of the operand
JumpOperand(k) == chunk_count(k) - 2

\* patch_jump without the check of the range
patch_jump_NoRange(k, offset) ==
    LET jump == chunk_count(k) - offset - 2 IN
    [k EXCEPT !.vm.mem[k.c.function].code[offset + 1] = Hi(jump),
              !.vm.mem[k.c.function].code[offset + 2] = Lo(jump)]

patch_jump(k, offset) ==
    LET jump == chunk_count(k) - offset - 2 IN
    IF jump < 0 \/ jump > 65535 THEN Reject(k, "Jump offset out of range.")
    ELSE [k EXCEPT !.vm.mem[k.c.function].code[offset + 1] = Hi(jump),
                   !.vm.mem[k.c.function].code[offset + 2] = Lo(jump)]

I_LOOP(offset) == <<Op("OP_LOOP"), Hi(offset), Lo(offset)>>
\* emit_loop_instruction with the jump back landing behind the first
\* instruction of the condition
emit_loop_instruction_PastCondition(k, loop_start) ==
    LET Patch(k1, offset) ==
            IF offset < 0 \/ offset > 65535 THEN Reject(k1, "Loop body too large.")
            ELSE [k1 EXCEPT !.vm.mem[k.c.function].code[chunk_count(k1) - 1] = Hi(offset),
                            !.vm.mem[k.c.function].code[chunk_count(k1)] = Lo(offset)]
    IN Patch(Emit(k, I_LOOP(0)), chunk_count(k) + 3 - (loop_start + 4))

\* emit_loop_instruction: the operand is written as 0 and patched once the
\* chunk's count includes it
emit_loop_instruction(k, loop_start) ==
    LET Patch(k1, offset) ==
            IF offset < 0 \/ offset > 65535 THEN Reject(k1, "Loop body too large.")
            ELSE [k1 EXCEPT !.vm.mem[k.c.function].code[chunk_count(k1) - 1] = Hi(offset),
                            !.vm.mem[k.c.function].code[chunk_count(k1)] = Lo(offset)]
    IN Patch(Emit(k, I_LOOP(0)), chunk_count(k) + 3 - loop_start)

\* emit_return without the constructor's case
emit_return_NoInitializer(k) ==
    IF ~k.c.enclosing /\ k.c.pending_has_value
    THEN [emit_return_value(k, k.c.pending_value) EXCEPT
              !.c.pending_has_value = FALSE,
              !.c.has_pending_expression = FALSE,
              !.c.stack_depth = 0]
    ELSE LET dest == stack_register(k, k.c.stack_depth)
             ReturnNull(k1) ==
                 IF ~k1.ok THEN k1
                 ELSE pop_stack_slots(emit_return_value(emit_op_load_null(k1, dest), dest), 1)
         IN ReturnNull(push_stack_slot(k))

emit_return(k) ==
    IF ~k.c.enclosing /\ k.c.pending_has_value
    THEN [emit_return_value(k, k.c.pending_value) EXCEPT
              !.c.pending_has_value = FALSE,
              !.c.has_pending_expression = FALSE,
              !.c.stack_depth = 0]
    ELSE IF k.c.type = "FUNCTION_TYPE_INITIALIZER" /\ local_count(k) > 0
    THEN emit_return_value(k, k.c.locals[1].reg)
    ELSE LET dest == stack_register(k, k.c.stack_depth)
             ReturnNull(k1) ==
                 IF ~k1.ok THEN k1
                 ELSE pop_stack_slots(emit_return_value(emit_op_load_null(k1, dest), dest), 1)
         IN ReturnNull(push_stack_slot(k))

begin_scope(k) == [k EXCEPT !.c.scope_depth = @ + 1]

\* end_scope's loop: the locals go, last first, down to the last one that
\* is not deeper than scope_depth
DropLocals(locals, scope_depth) ==
    LET kept == {i \in 1..Len(locals) : locals[i].depth <= scope_depth}
    IN SubSeq(locals, 1, IF kept = {} THEN 0 ELSE CHOOSE i \in kept : \A j \in kept : j <= i)
end_scope(k) ==
    [k EXCEPT !.c.scope_depth = @ - 1, !.c.locals = DropLocals(@, k.c.scope_depth - 1)]

MAX_LOCALS == 256
\* add_local: the new local is the last of k.c.locals (slot local_count - 1)
add_local(k, name) ==
    IF local_count(k) >= MAX_LOCALS THEN Reject(k, "Too many local variables.")
    ELSE IF local_count(k) >= UINT8_MAX
    THEN Reject(k, "Too many registers required for locals.")
    ELSE LET Added(k1) ==
                 IF k1.vm.mem[k.c.function].register_count > UINT8_MAX
                 THEN Reject(k1, "Function requires more than 255 registers.")
                 ELSE k1
         IN Added([k EXCEPT !.c.locals =
                        Append(@, [name |-> name, depth |-> -1, is_initialized |-> FALSE,
                                   reg |-> local_count(k)]),
                            !.vm.mem[k.c.function].register_count =
                                IF local_count(k) + 1 > @ THEN local_count(k) + 1 ELSE @])
Declare(k, slot, depth) ==
    [k EXCEPT !.c.locals[slot].depth = depth, !.c.locals[slot].is_initialized = TRUE]

\* resolve_local: the index of the innermost local of that name (from 1;
\* 0 where the code returns -1), and the message it may leave
LocalsNamed(k, name) == {i \in 1..local_count(k) : k.c.locals[i].name = name}
Innermost(set) == CHOOSE i \in set : \A j \in set : j <= i
resolve_local(k, name, for_assignment) ==
    IF LocalsNamed(k, name) = {} THEN [k |-> k, ret |-> 0]
    ELSE LET i == Innermost(LocalsNamed(k, name)) IN
         IF ~k.c.locals[i].is_initialized /\ ~for_assignment
         THEN [k |-> compiler_errorf(k, "Cannot read local variable before initialization."),
               ret |-> 0]
         ELSE [k |-> k, ret |-> i]

\* global_table_find: the index from 1, 0 where the code returns -1
global_table_find(globals, name) ==
    LET hits == {i \in 1..Len(globals) : globals[i] = name} IN
    IF hits = {} THEN 0 ELSE CHOOSE i \in hits : \A j \in hits : i <= j
\* global_table_add: the new name's index (from 0) is the count before
global_table_add(k, name) ==
    IF global_table_find(k.globals, name) # 0 THEN Reject(k, "Global already defined.")
    ELSE IF Len(k.globals) >= 65535 THEN Reject(k, "Too many global variables defined.")
    ELSE [k EXCEPT !.globals = Append(@, name)]

discard_pending_expression(k) ==
    IF ~k.c.enclosing /\ k.c.scope_depth = 0 /\ k.c.has_pending_expression
    THEN [pop_stack_slots(k, 1) EXCEPT !.c.has_pending_expression = FALSE,
                                       !.c.pending_has_value = FALSE]
    ELSE k

\* compile_expression, for the expressions of the trees above: each leaves
\* its value in a new stack slot.  Of the binary operators only + - * / occur
\* in these trees; the arms of the comparison operators are not reproduced.
RECURSIVE compile_expression(_, _)
\* compile_assignment: the value stays in its stack slot
compile_assignment(k, expression) ==
    LET Store(k1, local, global, value_reg) ==
            IF local.ret # 0
            THEN emit_op_move(local.k, k1.c.locals[local.ret].reg, value_reg)
            ELSE IF global = 0 THEN Reject(local.k, "Undefined variable.")
            ELSE emit_op_set_global(local.k, value_reg, global - 1)
        Assign(k1) ==
            IF ~k1.ok THEN k1
            ELSE Store(k1, resolve_local(k1, expression.name, TRUE),
                       global_table_find(k1.globals, expression.name),
                       stack_top_register(k1, 0))
    IN Assign(compile_expression(k, expression.value))

BinaryOpcode(operator_type) ==
    CASE operator_type = "TOKEN_PLUS" -> "OP_ADD"
      [] operator_type = "TOKEN_MINUS" -> "OP_SUBTRACT"
      [] operator_type = "TOKEN_STAR" -> "OP_MULTIPLY"
      [] operator_type = "TOKEN_SLASH" -> "OP_DIVIDE"

compile_expression(k, expression) ==
    LET dest == stack_register(k, k.c.stack_depth) IN
    CASE expression.kind = "EXPR_UNARY" ->
            LET Unary(k1, reg) ==
                    IF ~k1.ok THEN k1
                    ELSE IF expression.operator_type = "TOKEN_MINUS"
                    THEN emit_op_unary(k1, "OP_NEGATE", reg, reg)
                    ELSE IF expression.operator_type = "TOKEN_BANG"
                    THEN emit_op_unary(k1, "OP_NOT", reg, reg)
                    ELSE Reject(k1, "Unsupported unary operator.")
                Operand(k1) == Unary(k1, stack_top_register(k1, 0))
            IN Operand(compile_expression(k, expression.right))
      [] expression.kind = "EXPR_BINARY" ->
            LET Binary(k2, left_reg, right_reg) ==
                    IF ~k2.ok THEN k2
                    ELSE IF expression.operator_type \in
                                {"TOKEN_PLUS", "TOKEN_MINUS", "TOKEN_STAR", "TOKEN_SLASH"}
                    THEN pop_stack_slots(
                             emit_op_binary(k2, BinaryOpcode(expression.operator_type),
                                            left_reg, left_reg, right_reg), 1)
                    ELSE Reject(k2, "Unsupported binary operator.")
                Right(k2) == Binary(k2, stack_top_register(k2, 1), stack_top_register(k2, 0))
                Left(k1) == IF ~k1.ok THEN k1
                            ELSE Right(compile_expression(k1, expression.right))
            IN Left(compile_expression(k, expression.left))
      [] expression.kind = "EXPR_ASSIGNMENT" -> compile_assignment(k, expression)
      [] expression.kind = "EXPR_LITERAL_NUMBER" ->
            LET Literal(k1) ==
                    IF ~k1.ok THEN k1
                    ELSE emit_op_load_constant(k1, dest, value_make_number(expression.value))
            IN Literal(push_stack_slot(k))
      [] expression.kind = "EXPR_LITERAL_STRING" ->
            \* compile_literal_string: the string is interned before the slot is pushed
            LET Literal(k1, string) ==
                    IF ~k1.ok THEN k1
                    ELSE emit_op_load_constant(k1, dest, value_make_obj(string))
                Copied(st) == Literal(push_stack_slot([k EXCEPT !.vm = st.vm]), st.ret)
            IN Copied(obj_string_copy(k.vm, expression.value, FALSE))
      [] expression.kind = "EXPR_LITERAL_BOOL" ->
            LET Literal(k1) == IF ~k1.ok THEN k1
                            ELSE emit_op_load_bool(k1, dest, expression.value)
            IN Literal(push_stack_slot(k))
      [] expression.kind = "EXPR_LITERAL_NULL" ->
            LET Literal(k1) == IF ~k1.ok THEN k1 ELSE emit_op_load_null(k1, dest)
            IN Literal(push_stack_slot(k))
      [] expression.kind = "EXPR_THIS" ->
            LET Move(k1, local) ==
                    IF ~k1.ok THEN k1 ELSE emit_op_move(k1, dest, k.c.locals[local.ret].reg)
                This(local) ==
                    IF local.ret = 0
                    THEN Reject(local.k, "Cannot use 'this' outside of class method.")
                    ELSE Move(push_stack_slot(local.k), local)
            IN This(resolve_local(k, Str_this, FALSE))
      [] expression.kind = "EXPR_IDENTIFIER" ->
            LET Read(k1, local, global) ==
                    IF ~k1.ok THEN k1
                    ELSE IF local.ret # 0
                    THEN emit_op_move(k1, dest, k.c.locals[local.ret].reg)
                    ELSE IF global = 0
                    THEN Reject(pop_stack_slots(k1, 1), "Undefined variable.")
                    ELSE emit_op_get_global(k1, dest, global - 1)
                Resolved(local) ==
                    Read(push_stack_slot(local.k), local,
                         global_table_find(k.globals, expression.name))
            IN Resolved(resolve_local(k, expression.name, FALSE))

\* ------------------------------------------------------------ the parser (parser.c)
\* A source text is given by the tokens lexer_next_token yields for it, one
\* per call; once they are used up it yields TOKEN_EOF at every call.  The
\* texts parsed are made of numbers, names, null, `;`, `{`, `}`, `(`, `)`,
\* `,`, `let`, the operators and characters the lexer rejects: the arms of
\* the parse functions that start at any other token (a string, `[`, `.`)
\* are left out.
\* A token's lexeme is a name's bytes (lexeme) or, for an error token, the
\* lexer's message (message).
Token(type, lexeme, number_value, message) ==
    [type |-> type, lexeme |-> lexeme, number_value |-> number_value, message |-> message]
Tok(type) == Token(type, << >>, 0, "")
TokNumber(n) == Token("TOKEN_NUMBER", << >>, n, "")
TokIdentifier(name) == Token("TOKEN_IDENTIFIER", name, 0, "")
TokError == Token("TOKEN_ERROR", << >>, 0, "Unexpected character")

lexer_init(source) == [source |-> source, current |-> 1]
lexer_next_token(lexer) ==
    IF lexer.current > Len(lexer.source)
    THEN [lexer |-> lexer, ret |-> Tok("TOKEN_EOF")]
    ELSE [lexer |-> [lexer EXCEPT !.current = @ + 1], ret |-> lexer.source[lexer.current]]

\* history: the messages handed to parser_error, in order, the first
\* MaxReported of them
MaxReported == 2
Report(p, message) ==
    [p EXCEPT !.reported = IF Len(@) < MaxReported THEN Append(@, message) ELSE @]

\* parser_error with the message of the latest error
parser_error_KeepsLast(p, message) ==
    [Report(p, message) EXCEPT !.had_error = TRUE, !.error_message = message]

\* parser_error keeps the first message (error_message is "" while it is NULL)
parser_error(p, message) ==
    IF p.had_error THEN Report(p, message)
    ELSE [Report(p, message) EXCEPT !.had_error = TRUE, !.error_message = message]

parser_init(source) ==
    LET first == lexer_next_token(lexer_init(source))
        p == [lexer |-> first.lexer, previous |-> Tok("TOKEN_ERROR"), current |-> first.ret,
              had_error |-> FALSE, error_message |-> "", reported |-> << >>]
    IN IF first.ret.type = "TOKEN_ERROR" THEN parser_error(p, first.ret.message) ELSE p

advance(p) ==
    LET next == lexer_next_token(p.lexer)
        p1 == [p EXCEPT !.previous = p.current, !.current = next.ret, !.lexer = next.lexer]
    IN IF next.ret.type = "TOKEN_ERROR" THEN parser_error(p1, next.ret.message) ELSE p1

check(p, type) == p.current.type = type
\* match and consume: the parser afterwards (p) and what was returned (ret;
\* for consume, whether it returned the token)
match(p, type) == [p |-> IF check(p, type) THEN advance(p) ELSE p, ret |-> check(p, type)]
consume(p, type, message) ==
    IF check(p, type) THEN [p |-> advance(p), ret |-> TRUE]
    ELSE [p |-> parser_error(p, message), ret |-> FALSE]

RECURSIVE synchronize(_)
synchronize(p) ==
    IF ~p.had_error \/ p.current.type = "TOKEN_EOF" THEN p
    ELSE IF p.previous.type = "TOKEN_SEMICOLON" THEN p
    ELSE IF p.current.type \in {"TOKEN_KEYWORD_FUNCTION", "TOKEN_KEYWORD_CLASS",
                                "TOKEN_KEYWORD_LET", "TOKEN_KEYWORD_IF",
                                "TOKEN_KEYWORD_WHILE", "TOKEN_KEYWORD_RETURN"} THEN p
    ELSE synchronize(advance(p))

\* The parse functions return the parser afterwards (p) and the tree (ret;
\* NoExpr or NoStmt where the code returns NULL).
NoStmt == Node("none", << >>, FALSE, NoExpr, << >>, << >>, 0)
Parsed(p, ret) == [p |-> p, ret |-> ret]

RECURSIVE parse_expression(_)
parse_primary(p) ==
    LET Grouped(expr, closed) == Parsed(closed.p, IF closed.ret THEN expr.ret ELSE NoExpr)
        Group(expr) ==
            Grouped(expr, consume(expr.p, "TOKEN_RPAREN", "Expect ')' after expression."))
    IN
    CASE check(p, "TOKEN_KEYWORD_TRUE") -> Parsed(advance(p), ExprBool(TRUE))
      [] check(p, "TOKEN_KEYWORD_FALSE") -> Parsed(advance(p), ExprBool(FALSE))
      [] check(p, "TOKEN_KEYWORD_NULL") -> Parsed(advance(p), ExprNull)
      [] check(p, "TOKEN_KEYWORD_THIS") -> Parsed(advance(p), ExprThis)
      [] check(p, "TOKEN_NUMBER") -> Parsed(advance(p), ExprNumber(p.current.number_value))
      [] check(p, "TOKEN_IDENTIFIER") -> Parsed(advance(p), ExprIdentifier(p.current.lexeme))
      [] check(p, "TOKEN_LPAREN") -> Group(parse_expression(advance(p)))
      [] OTHER -> Parsed(parser_error(p, "Expect expression."), NoExpr)

\* parse_argument_list once an argument has been parsed: the parser
\* afterwards, the arguments, and what it returned
RECURSIVE ArgumentsAfter(_, _)
ArgumentsAfter(arguments, argument) ==
    LET Closed(consumed) ==
            [p |-> consumed.p, arguments |-> Append(arguments, argument.ret),
             ret |-> consumed.ret]
    IN IF argument.ret.kind = "none"
       THEN [p |-> argument.p, arguments |-> << >>, ret |-> FALSE]
       ELSE IF check(argument.p, "TOKEN_COMMA")
       THEN ArgumentsAfter(Append(arguments, argument.ret),
                           parse_expression(advance(argument.p)))
       ELSE Closed(consume(argument.p, "TOKEN_RPAREN", "Expect ')' after arguments."))
parse_argument_list(p) ==
    IF check(p, "TOKEN_RPAREN") THEN [p |-> advance(p), arguments |-> << >>, ret |-> TRUE]
    ELSE ArgumentsAfter(<< >>, parse_expression(p))
\* finish_call (`(` has been consumed)
finish_call(p, callee) ==
    LET Call(list) ==
            Parsed(list.p, IF list.ret THEN ExprCall(callee, list.arguments) ELSE NoExpr)
    IN Call(parse_argument_list(p))

\* parse_call: a primary expression and the calls that follow it; no `[`
\* or `.` follows one here
RECURSIVE CallsAfter(_)
CallsAfter(expr) ==
    IF expr.ret.kind = "none" \/ ~check(expr.p, "TOKEN_LPAREN") THEN expr
    ELSE CallsAfter(finish_call(advance(expr.p), expr.ret))
parse_call(p) == CallsAfter(parse_primary(p))

\* The parse functions below hand what one step returned to the next as an
\* argument: Parsed values of the parser so far and the tree so far.
UnaryOf(operator_type, right) ==
    IF right.ret.kind = "none" THEN right
    ELSE Parsed(right.p, ExprUnary(operator_type, right.ret))
RECURSIVE parse_unary(_)
parse_unary(p) ==
    IF check(p, "TOKEN_BANG") \/ check(p, "TOKEN_MINUS")
    THEN UnaryOf(p.current.type, parse_unary(advance(p)))
    ELSE parse_call(p)

\* make_binary on what the two operands' parse functions returned; the
\* operator is the token the parser was at after the left operand
make_binary(left, right) ==
    IF right.ret.kind = "none" THEN right
    ELSE Parsed(right.p, ExprBinary(left.ret, left.p.current.type, right.ret))

\* the levels with term and factor the other way round
Levels_FactorBelowTerm ==
    <<{"TOKEN_EQUAL_EQUAL", "TOKEN_BANG_EQUAL"},
      {"TOKEN_GREATER", "TOKEN_GREATER_EQUAL", "TOKEN_LESS", "TOKEN_LESS_EQUAL"},
      {"TOKEN_STAR", "TOKEN_SLASH"},
      {"TOKEN_PLUS", "TOKEN_MINUS"}>>

\* parse_factor, parse_term, parse_comparison and parse_equality are one
\* loop each: an operand of the next level, then, while one of the level's
\* operators follows, that operator and another operand
Levels == <<{"TOKEN_EQUAL_EQUAL", "TOKEN_BANG_EQUAL"},
            {"TOKEN_GREATER", "TOKEN_GREATER_EQUAL", "TOKEN_LESS", "TOKEN_LESS_EQUAL"},
            {"TOKEN_PLUS", "TOKEN_MINUS"},
            {"TOKEN_STAR", "TOKEN_SLASH"}>>
RECURSIVE ParseLevel(_, _), ParseOperators(_, _)
ParseLevel(level, p) ==
    IF level > Len(Levels) THEN parse_unary(p)
    ELSE ParseOperators(level, ParseLevel(level + 1, p))
ParseOperators(level, expr) ==
    IF expr.ret.kind = "none" \/ expr.p.current.type \notin Levels[level] THEN expr
    ELSE ParseOperators(level, make_binary(expr, ParseLevel(level + 1, advance(expr.p))))
parse_factor(p) == ParseLevel(4, p)
parse_term(p) == ParseLevel(3, p)
parse_comparison(p) == ParseLevel(2, p)
parse_equality(p) == ParseLevel(1, p)

\* parse_assignment that takes `+=` for `=`
AssignmentTo_Plain(target, assignment_type, value) ==
    IF value.ret.kind = "none" THEN value
    ELSE IF target.kind = "EXPR_IDENTIFIER"
    THEN Parsed(value.p, ExprAssignment(target.name, value.ret))
    ELSE Parsed(parser_error(value.p, "Invalid assignment target."), NoExpr)

\* parse_assignment once the value has been parsed: x += e becomes x = x + e
AssignmentTo(target, assignment_type, value) ==
    IF value.ret.kind = "none" THEN value
    ELSE IF target.kind = "EXPR_IDENTIFIER"
    THEN Parsed(value.p,
             ExprAssignment(target.name,
                 IF assignment_type = "TOKEN_PLUS_EQUAL"
                 THEN ExprBinary(ExprIdentifier(target.name), "TOKEN_PLUS", value.ret)
                 ELSE value.ret))
    ELSE Parsed(parser_error(value.p, "Invalid assignment target."), NoExpr)
RECURSIVE parse_assignment(_), AssignmentAfter(_)
\* parse_assignment once its left side has been parsed
AssignmentAfter(expr) ==
    IF expr.ret.kind = "none" THEN expr
    ELSE IF ~check(expr.p, "TOKEN_EQUAL") /\ ~check(expr.p, "TOKEN_PLUS_EQUAL") THEN expr
    ELSE AssignmentTo(expr.ret, expr.p.current.type, parse_assignment(advance(expr.p)))
parse_assignment(p) == AssignmentAfter(parse_equality(p))
parse_expression(p) == parse_assignment(p)

\* the end of a statement: the token that closes it has been asked for
StatementIf(consumed, statement) ==
    Parsed(consumed.p, IF consumed.ret THEN statement ELSE NoStmt)

ExpressionStatementOf(expr) ==
    IF expr.ret.kind = "none" THEN Parsed(expr.p, NoStmt)
    ELSE StatementIf(consume(expr.p, "TOKEN_SEMICOLON", "Expect ';' after expression."),
                     ExprStmt(expr.ret))
parse_expression_statement(p) == ExpressionStatementOf(parse_expression(p))

\* parse_let_declaration (`let` has been consumed): after the name, after
\* `=` if there is one, and after the initializer
LetEnd(name, has_initializer, initializer) ==
    IF has_initializer /\ initializer.ret.kind = "none" THEN Parsed(initializer.p, NoStmt)
    ELSE StatementIf(consume(initializer.p, "TOKEN_SEMICOLON",
                             "Expect ';' after variable declaration."),
                     LetStmt(name, has_initializer, initializer.ret))
LetInitializer(name, equal) ==
    IF equal.ret THEN LetEnd(name, TRUE, parse_expression(equal.p))
    ELSE LetEnd(name, FALSE, Parsed(equal.p, NoExpr))
LetName(name_token) ==
    IF ~name_token.ret THEN Parsed(name_token.p, NoStmt)
    ELSE LetInitializer(name_token.p.previous.lexeme, match(name_token.p, "TOKEN_EQUAL"))
parse_let_declaration(p) == LetName(consume(p, "TOKEN_IDENTIFIER", "Expect variable name."))

\* parse_declaration and parse_statement for a declaration that is not a
\* block: one of `let`, or an expression statement
parse_declaration(p) ==
    IF check(p, "TOKEN_KEYWORD_LET") THEN parse_let_declaration(advance(p))
    ELSE parse_expression_statement(p)

\* parser_parse at work.  open: the statement lists being filled, the
\* program's first, then that of every block parse_block is in, innermost
\* last; null, program and message: whether parser_parse returned NULL, the
\* program it returned and the message it handed back; ok: what
\* compiler_run_source returned ("none" until it has)
NoParse ==
    [phase |-> "none", p |-> parser_init(<< >>), open |-> << >>, null |-> FALSE,
     program |-> << >>, message |-> "", ok |-> "none"]

\* ------------------------------------------------------------ state
VARIABLES
    vm,        \* the VM struct, the heap cells of its objects (vm.mem), and vm.ub
    status,    \* "idle": the embedder has control; "running": inside run()
    result,    \* what the last vm_interpret returned: its status and *result_out
    loaded,    \* the program whose functions the embedder has built
    script,    \* the embedder's pointer to the zero-arity function it interprets
    runs,      \* vm_interpret calls so far
    pushes,    \* values the embedder has on the stack
    last,      \* history: the operation that led to this state
    hist,      \* history: for each active frame, the call that created it
    cc,        \* compiler_compile at work: its compilers and what is left to compile
    stores,    \* history: for each global slot a DEFINE_GLOBAL has executed on,
               \* the value DEFINE_GLOBAL or SET_GLOBAL stored there last
    parser     \* parser_parse at work: its Parser, the lists being filled, and
               \* what it returned

vars == <<vm, status, result, loaded, script, runs, pushes, last, hist, cc, stores, parser>>

\* vm_init
vm_init ==
    [frames |-> << >>, frame_capacity |-> 0,
     stack |-> << >>, stack_gen |-> 0, stack_capacity |-> 0, stack_top |-> 0,
     globals |-> << >>, global_defined |-> << >>, global_count |-> 0, global_capacity |-> 0,
     strings |-> << >>, objects |-> << >>, bytes_allocated |-> 0, next_gc |-> 1024 * 1024,
     gray_stack |-> << >>,
     mem |-> [a \in Addr |-> FreeCell], ub |-> FALSE]

NoResult == [code |-> "NONE", value |-> Null]

\* method: the class method of the program being compiled; compilers: the
\* script's compiler and, while a method is compiled, its child; work: the
\* statements still to compile, innermost first; compiled: the method's
\* function once compile_method has finished with it; function: what
\* compiler_compile returned; program: the top-level statements of a script
NoMethod == [name |-> << >>, is_constructor |-> FALSE, parameters |-> << >>, body |-> << >>]
NoCompilation ==
    [phase |-> "none", method |-> NoMethod, compilers |-> << >>, globals |-> << >>,
     work |-> << >>, error |-> "", compiled |-> NULL, function |-> NULL,
     program |-> << >>]

Init ==
    /\ vm = vm_init
    /\ status = "idle"
    /\ result = NoResult
    /\ loaded = NoProgram
    /\ script = NULL
    /\ runs = 0
    /\ pushes = 0
    /\ last = [op |-> "vm_init"]
    /\ hist = << >>
    /\ cc = NoCompilation
    /\ stores = << >>
    /\ parser = NoParse

Idle == status = "idle" /\ ~vm.ub
Running == status = "running" /\ ~vm.ub

\* ------------------------------------------------------------ the embedder's calls
\* Build the functions of one program.
LoadProgram(p) ==
    /\ Idle /\ loaded = NoProgram
    /\ LET Loaded(ld) ==
               /\ vm' = ld.vm
               /\ script' = ld.ret
               /\ loaded' = p
           Functions(fns) ==
               /\ HasFree(vm, CellsOf(fns, 1))
               /\ Loaded(LoadFunctions(vm, fns, 1, << >>))
       IN Functions(Prog(p))
    /\ last' = [op |-> "load"]
    /\ UNCHANGED <<status, result, runs, pushes, hist, cc, stores, parser>>
Load == \E p \in Programs : LoadProgram(p)
LoadCallee == \E p \in CalleePrograms : LoadProgram(p)
LoadInvoke == \E p \in InvokePrograms : LoadProgram(p)
LoadCycle == \E p \in CyclePrograms : LoadProgram(p)
LoadArrays == \E p \in ArrayPrograms : LoadProgram(p)
LoadAdd == \E p \in AddPrograms : LoadProgram(p)
LoadIndex == \E p \in IndexPrograms : LoadProgram(p)
LoadEqual == \E p \in EqualPrograms : LoadProgram(p)

\* vm_push of a value the embedder holds: its function or the last result.
VmPush ==
    /\ Idle /\ pushes < MaxPush
    /\ \E value \in {value_make_obj(script), result.value} :
         /\ value_is_obj(value) /\ TypeOf(vm.mem, value.v) # "free"
         /\ vm' = vm_push(vm, value, FALSE)
    /\ pushes' = pushes + 1
    /\ last' = [op |-> "vm_push"]
    /\ UNCHANGED <<status, result, loaded, script, runs, hist, cc, stores, parser>>

VmPop ==
    /\ Idle /\ pushes > 0 /\ vm.stack_top > 0
    /\ vm' = vm_pop(vm)
    /\ pushes' = pushes - 1
    /\ last' = [op |-> "vm_pop"]
    /\ UNCHANGED <<status, result, loaded, script, runs, hist, cc, stores, parser>>

\* obj_string_copy called by the embedder (the result is not kept anywhere);
\* the bytes are those the data programs concatenate
EmbedderStrings == {Str_a \o Str_b, Str_m}
StringCopy ==
    /\ Idle /\ HasFree(vm, 1)
    /\ \E chars \in EmbedderStrings :
         LET st == obj_string_copy(vm, chars, FALSE) IN
         /\ vm' = st.vm
         \* measured: bytes_allocated as the embedder reads it before the call
         /\ last' = [op |-> "obj_string_copy", chars |-> chars, ret |-> st.ret,
                     existing |-> {a \in Addr : /\ TypeOf(vm.mem, a) = "string"
                                                /\ vm.mem[a].chars = chars},
                     measured |-> vm.bytes_allocated]
    /\ UNCHANGED <<status, result, loaded, script, runs, pushes, hist, cc, stores, parser>>

\* vm_collect_garbage; `before` is the VM the collection started from
Collect ==
    /\ Idle
    /\ vm' = vm_collect_garbage(vm)
    /\ last' = [op |-> "vm_collect_garbage", before |-> vm]
    \* the embedder forgets its function when it did not keep it rooted
    /\ script' = IF script # NULL /\ vm_collect_garbage(vm).mem[script].type = "free"
                 THEN NULL ELSE script
    /\ result' = IF value_is_obj(result.value)
                    /\ vm_collect_garbage(vm).mem[result.value.v].type = "free"
                 THEN [result EXCEPT !.value = Null] ELSE result
    /\ UNCHANGED <<status, loaded, runs, pushes, hist, cc, stores, parser>>

\* history: what created a frame (the kind of call, the destination register
\* and the return address the calling instruction names, the instance a
\* class call made)
Created(kind, dest, ret_ip, instance) ==
    [kind |-> kind, dest |-> dest, ret_ip |-> ret_ip, instance |-> instance]

\* vm_interpret up to the call of run()
Interpret ==
    /\ Idle /\ script # NULL /\ runs < MaxRuns
    /\ TypeOf(vm.mem, script) = "function"
    /\ runs' = runs + 1
    /\ pushes' = 0
    /\ IF vm.mem[script].arity # 0
       THEN /\ vm' = runtime_error(vm)
            /\ status' = "idle"
            /\ result' = [code |-> "INTERPRET_RUNTIME_ERROR", value |-> Null]
            /\ hist' = << >>
            /\ last' = [op |-> "vm_interpret", returned |-> "INTERPRET_RUNTIME_ERROR"]
       ELSE LET m1 == vm_push(ensure_frame_capacity(vm_reset_stack(vm), 1),
                              value_make_obj(script), FALSE)
                cf == call_function(m1, 0, script, 0, 0, << >>, FALSE, FALSE)
            IN /\ vm' = cf.vm
               /\ status' = IF cf.ok THEN "running" ELSE "idle"
               /\ result' = IF cf.ok THEN NoResult
                            ELSE [code |-> "INTERPRET_RUNTIME_ERROR", value |-> Null]
               /\ hist' = IF cf.ok THEN <<Created("vm_interpret", 0, 0, NULL)>> ELSE << >>
               /\ last' = [op |-> "vm_interpret",
                           returned |-> IF cf.ok THEN "NONE" ELSE "INTERPRET_RUNTIME_ERROR"]
    /\ UNCHANGED <<loaded, script, cc, stores, parser>>

\* ------------------------------------------------------------ run(): decoding
FrameIndex(m) == Len(m.frames)
Top(m) == m.frames[Len(m.frames)]
Chunk(m) == m.mem[Top(m).function]
\* the k-th byte from frame->ip
Byte(m, k) == Chunk(m).code[Top(m).ip + 1 + k]
Short(m, k) == Byte(m, k) * 256 + Byte(m, k + 1)
Bytes(m, k, n) == [i \in 1..n |-> Byte(m, k + i - 1)]
\* read_byte / read_short move frame->ip
Advance(m, n) == [m EXCEPT !.frames[Len(m.frames)].ip = @ + n]

Fetch(name) == Running /\ Byte(vm, 0) = Op(name)
\* the local `registers` of run(): the window pointer read at the top of the loop
Registers == Top(vm).registers
Reg(i) == Rd(vm.stack, Registers.off + i)

\* history: a DEFINE_GLOBAL that went through records its slot and value; a
\* SET_GLOBAL that went through replaces the value of a slot recorded before
StoresAfter(l) ==
    IF l.op = "OP_DEFINE_GLOBAL" /\ l.returned = "NONE"
    THEN [s \in (DOMAIN stores) \cup {l.slot} |-> IF s = l.slot THEN l.value ELSE stores[s]]
    ELSE IF l.op = "OP_SET_GLOBAL" /\ l.returned = "NONE" /\ l.slot \in DOMAIN stores
    THEN [stores EXCEPT ![l.slot] = l.value]
    ELSE stores

\* the end of one pass through the loop: res is "continue", or the status
\* run() returns
Finish(m, res, value, l, h) ==
    /\ vm' = m
    /\ status' = IF res = "continue" THEN "running" ELSE "idle"
    /\ result' = IF res = "continue" THEN result ELSE [code |-> res, value |-> value]
    /\ last' = l
    /\ hist' = h
    /\ stores' = StoresAfter(l)
    /\ UNCHANGED <<loaded, script, runs, pushes, cc, parser>>

Fail(m, opname) ==
    Finish(runtime_error(m), "INTERPRET_RUNTIME_ERROR", result.value,
           [op |-> opname, returned |-> "INTERPRET_RUNTIME_ERROR"], << >>)

Continue(m, opname) == Finish(m, "continue", Null, [op |-> opname, returned |-> "NONE"], hist)

\* ------------------------------------------------------------ run(): the opcodes
OpLoadConst ==
    /\ Fetch("OP_LOAD_CONST")
    /\ LET dest == Byte(vm, 1)
           index == Short(vm, 2)
       IN Continue(RegWrite(Advance(vm, 4), Registers, dest,
                            chunk_get_constant(Chunk(vm).constants, index)), "OP_LOAD_CONST")

OpLoadNull ==
    /\ Fetch("OP_LOAD_NULL")
    /\ Continue(RegWrite(Advance(vm, 2), Registers, Byte(vm, 1), value_make_null),
                "OP_LOAD_NULL")

OpLoadTrue ==
    /\ Fetch("OP_LOAD_TRUE")
    /\ Continue(RegWrite(Advance(vm, 2), Registers, Byte(vm, 1), value_make_bool(TRUE)),
                "OP_LOAD_TRUE")

OpLoadFalse ==
    /\ Fetch("OP_LOAD_FALSE")
    /\ Continue(RegWrite(Advance(vm, 2), Registers, Byte(vm, 1), value_make_bool(FALSE)),
                "OP_LOAD_FALSE")

\* value_is_truthy: null and false are not
value_is_truthy(x) == ~value_is_null(x) /\ (value_is_bool(x) => x.v = 1)

\* OP_JUMP: the offset counts from the byte after the operand
OpJump ==
    /\ Fetch("OP_JUMP")
    /\ Continue(Advance(vm, 3 + Short(vm, 1)), "OP_JUMP")

OpJumpIfFalse ==
    /\ Fetch("OP_JUMP_IF_FALSE")
    /\ Continue(Advance(vm, IF value_is_truthy(Reg(Byte(vm, 1))) THEN 4
                            ELSE 4 + Short(vm, 2)), "OP_JUMP_IF_FALSE")

\* OP_LOOP: the offset counts back from the byte after the operand
OpLoop ==
    /\ Fetch("OP_LOOP")
    /\ Continue(Advance(vm, 3 - Short(vm, 1)), "OP_LOOP")

OpMove ==
    /\ Fetch("OP_MOVE")
    /\ LET dest == Byte(vm, 1)
           src == Byte(vm, 2)
       IN Continue(RegWrite(Advance(vm, 3), Registers, dest, Reg(src)), "OP_MOVE")

OpSubtract ==
    /\ Fetch("OP_SUBTRACT")
    /\ LET dest == Byte(vm, 1)
           a == Reg(Byte(vm, 2))
           b == Reg(Byte(vm, 3))
           m0 == Advance(vm, 4)
       IN IF ~value_is_number(a) \/ ~value_is_number(b) THEN Fail(m0, "OP_SUBTRACT")
          ELSE Continue(RegWrite(m0, Registers, dest, value_make_number(a.v - b.v)),
                        "OP_SUBTRACT")

OpNegate ==
    /\ Fetch("OP_NEGATE")
    /\ LET dest == Byte(vm, 1)
           value == Reg(Byte(vm, 2))
           m0 == Advance(vm, 3)
       IN IF ~value_is_number(value) THEN Fail(m0, "OP_NEGATE")
          ELSE Continue(RegWrite(m0, Registers, dest, value_make_number(0 - value.v)),
                        "OP_NEGATE")

OpAdd ==
    /\ Fetch("OP_ADD") /\ HasFree(vm, 1)
    /\ \E moved \in BOOLEAN :
       LET dest == Byte(vm, 1)
           a == Reg(Byte(vm, 2))
           b == Reg(Byte(vm, 3))
           m0 == Advance(vm, 4)
       IN IF value_is_array(vm.mem, a) THEN
              LET cp == obj_array_copy(m0, vm.mem[a.v].elements)
                  m1 == vm_push(cp.vm, value_make_obj(cp.ret), moved)
                  m2 == IF value_is_array(vm.mem, b)
                        THEN obj_array_extend(m1, cp.ret, vm.mem[b.v].elements)
                        ELSE obj_array_append(m1, cp.ret, b)
              IN Continue(vm_pop(RegWrite(m2, Registers, dest, value_make_obj(cp.ret))),
                          "OP_ADD")
          ELSE IF value_is_array(vm.mem, b) THEN Fail(m0, "OP_ADD")
          ELSE IF value_is_string(vm.mem, a) /\ value_is_string(vm.mem, b) THEN
              LET st == concatenate(m0, a, b, moved)
              IN Continue(RegWrite(st.vm, Registers, dest, value_make_obj(st.ret)), "OP_ADD")
          ELSE IF ~value_is_number(a) \/ ~value_is_number(b) THEN Fail(m0, "OP_ADD")
          ELSE Continue(RegWrite(m0, Registers, dest, value_make_number(a.v + b.v)), "OP_ADD")

OpBuildArray ==
    /\ Fetch("OP_BUILD_ARRAY") /\ HasFree(vm, 1)
    /\ \E moved \in BOOLEAN :
       LET dest == Byte(vm, 1)
           element_count == Byte(vm, 2)
           sources == Bytes(vm, 3, element_count)
           al == obj_array_new(Advance(vm, 3 + element_count))
           m1 == vm_push(al.vm, value_make_obj(al.ret), moved)
           \* registers[source_reg] is read through the window pointer taken
           \* before the push
           \* the appends take the storage to the capacity of element_count
           m2 == [array_ensure_capacity_or_die(m1, al.ret, element_count)
                     EXCEPT !.mem[al.ret].elements =
                                [i \in 1..element_count |->
                                    RegRead(m1, Registers, sources[i], vm.stack, FALSE)],
                            !.ub = @ \/ (element_count > 0 /\ ~Live(m1, Registers))]
       IN Continue(vm_pop(RegWrite(m2, Registers, dest, value_make_obj(al.ret))),
                   "OP_BUILD_ARRAY")

\* ensure_globals_capacity: both arrays are reallocated, copied and padded
ensure_globals_capacity(m, required) ==
    IF required <= m.global_capacity THEN m
    ELSE LET new_capacity == GrowTo(IF m.global_capacity = 0 THEN 8 ELSE m.global_capacity,
                                    required)
         IN [m EXCEPT !.globals = [i \in 1..new_capacity |->
                                      IF i <= m.global_capacity THEN m.globals[i] ELSE Null],
                      !.global_defined = [i \in 1..new_capacity |->
                                      IF i <= m.global_capacity THEN m.global_defined[i]
                                      ELSE FALSE],
                      !.global_capacity = new_capacity]

\* history of an instruction on a global: the slot it names, the register
\* it names and the value it moved
GlobalInfo(opname, returned, slot, reg, value) ==
    [op |-> opname, returned |-> returned, slot |-> slot, reg |-> reg, value |-> value]

\* OP_GET_GLOBAL without the test of the slot's defined marker
OpGetGlobal_NoDefinedCheck ==
    /\ Fetch("OP_GET_GLOBAL")
    /\ LET dest == Byte(vm, 1)
           slot == Short(vm, 2)
           m0 == Advance(vm, 4)
       IN IF slot >= vm.global_count
          THEN Finish(runtime_error(m0), "INTERPRET_RUNTIME_ERROR", result.value,
                      GlobalInfo("OP_GET_GLOBAL", "INTERPRET_RUNTIME_ERROR", slot, dest, Null),
                      << >>)
          ELSE Finish(RegWrite(m0, Registers, dest, vm.globals[slot + 1]), "continue", Null,
                      GlobalInfo("OP_GET_GLOBAL", "NONE", slot, dest, vm.globals[slot + 1]),
                      hist)

OpEqual ==
    /\ Fetch("OP_EQUAL")
    /\ LET dest == Byte(vm, 1)
           a == Reg(Byte(vm, 2))
           b == Reg(Byte(vm, 3))
       IN Continue(RegWrite(Advance(vm, 4), Registers, dest,
                            value_make_bool(value_equals(vm.mem, a, b))), "OP_EQUAL")

\* OP_ARRAY_GET.  A size_t of 2^31 - 1 stands for every size_t above the
\* lengths of the arrays here.
SizeAbove == 2147483647
\* index_double < 0.0 || index_double > (double)SIZE_MAX
IndexOutOfBounds(index_value) ==
    CASE Part(index_value) \in {"exact", "half"} -> index_value.v < 0
      [] Part(index_value) = "huge" -> TRUE
      [] OTHER -> FALSE
\* (size_t)index_double: the fraction is discarded.  For 2^64 and for NaN
\* the conversion is undefined: `converted` is what the build yields.
IndexAsSize(index_value, converted) ==
    CASE Part(index_value) \in {"exact", "half"} -> index_value.v
      [] Part(index_value) = "big" -> SizeAbove
      [] OTHER -> converted
\* (double)index != index_double; NaN differs from every double, and of the
\* size_t values only those that round to 2^64 give 2^64 back
IndexNotInteger_Truncates(index_value, index) == FALSE
IndexNotInteger(index_value, index) ==
    CASE Part(index_value) = "exact" -> FALSE
      [] Part(index_value) = "half" -> TRUE
      [] Part(index_value) = "big" -> FALSE
      [] Part(index_value) = "size_max" -> index # SizeAbove
      [] OTHER -> TRUE

OpArrayGet ==
    /\ Fetch("OP_ARRAY_GET")
    /\ \E converted \in {0, SizeAbove} :
       LET dest == Byte(vm, 1)
           array_value == Reg(Byte(vm, 2))
           index_value == Reg(Byte(vm, 3))
           m0 == Advance(vm, 4)
           index == IndexAsSize(index_value, converted)
       IN IF ~value_is_array(vm.mem, array_value) THEN Fail(m0, "OP_ARRAY_GET")
          ELSE IF ~value_is_number(index_value) THEN Fail(m0, "OP_ARRAY_GET")
          ELSE IF IndexOutOfBounds(index_value) THEN Fail(m0, "OP_ARRAY_GET")
          ELSE IF IndexNotInteger(index_value, index) THEN Fail(m0, "OP_ARRAY_GET")
          ELSE IF index >= Len(vm.mem[array_value.v].elements) THEN Fail(m0, "OP_ARRAY_GET")
          ELSE Continue(RegWrite(m0, Registers, dest,
                                 vm.mem[array_value.v].elements[index + 1]),
                        "OP_ARRAY_GET")

OpGetGlobal ==
    /\ Fetch("OP_GET_GLOBAL")
    /\ LET dest == Byte(vm, 1)
           slot == Short(vm, 2)
           m0 == Advance(vm, 4)
       IN IF slot >= vm.global_count \/ ~vm.global_defined[slot + 1]
          THEN Finish(runtime_error(m0), "INTERPRET_RUNTIME_ERROR", result.value,
                      GlobalInfo("OP_GET_GLOBAL", "INTERPRET_RUNTIME_ERROR", slot, dest, Null),
                      << >>)
          ELSE Finish(RegWrite(m0, Registers, dest, vm.globals[slot + 1]), "continue", Null,
                      GlobalInfo("OP_GET_GLOBAL", "NONE", slot, dest, vm.globals[slot + 1]),
                      hist)

OpDefineGlobal ==
    /\ Fetch("OP_DEFINE_GLOBAL")
    /\ LET src == Byte(vm, 1)
           slot == Short(vm, 2)
           required == slot + 1
           m1 == ensure_globals_capacity(Advance(vm, 4), required)
       IN Finish([m1 EXCEPT !.global_count = IF required > @ THEN required ELSE @,
                            !.globals[slot + 1] = Reg(src),
                            !.global_defined[slot + 1] = TRUE], "continue", Null,
                 GlobalInfo("OP_DEFINE_GLOBAL", "NONE", slot, src, Reg(src)), hist)

OpSetGlobal ==
    /\ Fetch("OP_SET_GLOBAL")
    /\ LET src == Byte(vm, 1)
           slot == Short(vm, 2)
           m0 == Advance(vm, 4)
       IN IF slot >= vm.global_count \/ ~vm.global_defined[slot + 1]
          THEN Finish(runtime_error(m0), "INTERPRET_RUNTIME_ERROR", result.value,
                      GlobalInfo("OP_SET_GLOBAL", "INTERPRET_RUNTIME_ERROR", slot, src, Reg(src)),
                      << >>)
          ELSE Finish([m0 EXCEPT !.globals[slot + 1] = Reg(src)], "continue", Null,
                      GlobalInfo("OP_SET_GLOBAL", "NONE", slot, src, Reg(src)), hist)

OpGetProperty ==
    /\ Fetch("OP_GET_PROPERTY") /\ HasFree(vm, 1)
    /\ LET dest == Byte(vm, 1)
           object == Reg(Byte(vm, 2))
           name_value == chunk_get_constant(Chunk(vm).constants, Short(vm, 3))
           name == value_as_obj(name_value)
           m0 == Advance(vm, 5)
       IN IF ~value_is_string(vm.mem, name_value) THEN Fail(m0, "OP_GET_PROPERTY")
          ELSE IF value_is_instance(vm.mem, object) THEN
              LET instance == value_as_obj(object)
                  field == obj_instance_get_field(vm, instance, name)
                  method == obj_class_find_method(vm, vm.mem[instance].klass, name)
                  method_value == vm.mem[vm.mem[instance].klass].methods[method].value
              IN IF field # 0
                 THEN Continue(RegWrite(m0, Registers, dest,
                                        vm.mem[instance].fields[field].value),
                               "OP_GET_PROPERTY")
                 ELSE IF method # 0 THEN
                     IF ~value_is_function(vm.mem, method_value)
                     THEN Fail(m0, "OP_GET_PROPERTY")
                     ELSE LET bound == obj_bound_method_new(m0, object,
                                                            value_as_obj(method_value))
                          IN Continue(RegWrite(bound.vm, Registers, dest,
                                               value_make_obj(bound.ret)), "OP_GET_PROPERTY")
                 ELSE Fail(m0, "OP_GET_PROPERTY")
          ELSE IF value_is_class(vm.mem, object) THEN
              LET method == obj_class_find_method(vm, value_as_obj(object), name)
              IN IF method # 0
                 THEN Continue(RegWrite(m0, Registers, dest,
                                        vm.mem[value_as_obj(object)].methods[method].value),
                               "OP_GET_PROPERTY")
                 ELSE Fail(m0, "OP_GET_PROPERTY")
          ELSE Fail(m0, "OP_GET_PROPERTY")

OpSetProperty ==
    /\ Fetch("OP_SET_PROPERTY")
    /\ LET object == Reg(Byte(vm, 1))
           name_value == chunk_get_constant(Chunk(vm).constants, Short(vm, 2))
           value_reg == Byte(vm, 4)
           m0 == Advance(vm, 5)
       IN IF ~value_is_string(vm.mem, name_value) THEN Fail(m0, "OP_SET_PROPERTY")
          ELSE IF ~value_is_instance(vm.mem, object) THEN Fail(m0, "OP_SET_PROPERTY")
          ELSE Continue(obj_instance_set_field(m0, value_as_obj(object),
                                               value_as_obj(name_value), Reg(value_reg)),
                        "OP_SET_PROPERTY")

OpClass ==
    /\ Fetch("OP_CLASS") /\ HasFree(vm, 1)
    /\ LET dest == Byte(vm, 1)
           name_value == chunk_get_constant(Chunk(vm).constants, Short(vm, 2))
           m0 == Advance(vm, 4)
       IN IF ~value_is_string(vm.mem, name_value) THEN Fail(m0, "OP_CLASS")
          ELSE LET klass == obj_class_new(m0, value_as_obj(name_value))
               IN Continue(RegWrite(klass.vm, Registers, dest, value_make_obj(klass.ret)),
                           "OP_CLASS")

OpMethod ==
    /\ Fetch("OP_METHOD")
    /\ LET class_value == Reg(Byte(vm, 1))
           name_value == chunk_get_constant(Chunk(vm).constants, Short(vm, 2))
           method == Reg(Byte(vm, 4))
           m0 == Advance(vm, 5)
       IN IF ~value_is_class(vm.mem, class_value) THEN Fail(m0, "OP_METHOD")
          ELSE IF ~value_is_string(vm.mem, name_value) THEN Fail(m0, "OP_METHOD")
          ELSE Continue(obj_class_define_method(m0, value_as_obj(class_value),
                                                value_as_obj(name_value), method),
                        "OP_METHOD")

\* history: what a call instruction was asked to do, read from the state
\* before it: the kind of callee, the function that is to run and its arity,
\* the values in the argument registers the instruction names, the receiver
\* of a bound method, and afterwards the instance a class call allocated.
CalleeKind(mem, callee) ==
    IF value_is_bound_method(mem, callee) THEN "bound_method"
    ELSE IF value_is_class(mem, callee) THEN "class"
    ELSE IF value_is_function(mem, callee) THEN "function"
    ELSE "other"

ConstructorOf(mem, klass) ==
    LET hits == {i \in 1..Len(mem[klass].methods) :
                    mem[mem[klass].methods[i].name].chars = ConstructorName}
    IN IF hits = {} THEN Null ELSE mem[klass].methods[CHOOSE i \in hits : TRUE].value

Target(mem, callee) ==
    CASE value_is_bound_method(mem, callee) -> value_make_obj(mem[callee.v].method)
      [] value_is_class(mem, callee) -> ConstructorOf(mem, callee.v)
      [] OTHER -> callee

NewInstance(before, after) ==
    LET new == {a \in Addr : TypeOf(after, a) = "instance" /\ TypeOf(before, a) = "free"}
    IN IF new = {} THEN NULL ELSE CHOOSE a \in new : TRUE

CallInfo(opname, mem, callee, dest, arg_count, argument_registers, cv) ==
    [op |-> opname,
     returned |-> IF cv.ok THEN "NONE" ELSE "INTERPRET_RUNTIME_ERROR",
     kind |-> CalleeKind(mem, callee),
     callee |-> callee,
     target |-> Target(mem, callee),
     n |-> arg_count,
     arity |-> IF value_is_function(mem, Target(mem, callee))
               THEN mem[Target(mem, callee).v].arity ELSE -1,
     register_count |-> IF value_is_function(mem, Target(mem, callee))
                        THEN mem[Target(mem, callee).v].register_count ELSE 0,
     args |-> [i \in 1..arg_count |-> Reg(argument_registers[i])],
     receiver |-> IF value_is_bound_method(mem, callee) THEN mem[callee.v].receiver ELSE Null,
     instance |-> NewInstance(vm.mem, cv.vm.mem),
     dest |-> dest,
     depth |-> Len(vm.frames),
     ok |-> cv.ok]

AfterCall(cv, info, ret_ip) ==
    IF ~cv.ok
    THEN Finish(cv.vm, "INTERPRET_RUNTIME_ERROR", result.value, info, << >>)
    ELSE Finish(cv.vm, "continue", Null, info,
                IF Len(cv.vm.frames) > Len(vm.frames)
                THEN Append(hist, Created(info.kind, info.dest, ret_ip, info.instance))
                ELSE hist)

OpCall ==
    /\ Fetch("OP_CALL") /\ HasFree(vm, 2) /\ Len(vm.frames) < MaxFrames
    /\ \E moved \in BOOLEAN, junk \in BOOLEAN :
       LET dest == Byte(vm, 1)
           callee_reg == Byte(vm, 2)
           arg_count == Byte(vm, 3)
           argument_registers == Bytes(vm, 4, arg_count)
           callee == Reg(callee_reg)
           Called(m0, cv) ==
               AfterCall(cv, CallInfo("OP_CALL", vm.mem, callee, dest, arg_count,
                                      argument_registers, cv),
                         Top(m0).ip)
           Call(m0) == Called(m0, call_value(m0, FrameIndex(vm), dest, callee, arg_count,
                                             argument_registers, moved, junk))
       IN Call(Advance(vm, 4 + arg_count))

OpInvoke ==
    /\ Fetch("OP_INVOKE") /\ HasFree(vm, 3) /\ Len(vm.frames) < MaxFrames
    /\ \E moved \in BOOLEAN, junk \in BOOLEAN :
       LET dest == Byte(vm, 1)
           receiver == Reg(Byte(vm, 2))
           name_value == chunk_get_constant(Chunk(vm).constants, Short(vm, 3))
           name == value_as_obj(name_value)
           arg_count == Byte(vm, 5)
           argument_registers == Bytes(vm, 6, arg_count)
           caller == FrameIndex(vm)
           Called(m0, mem, callee, cv) ==
               AfterCall(cv, CallInfo("OP_INVOKE", mem, callee, dest, arg_count,
                                      argument_registers, cv), Top(m0).ip)
           Call(m0, callee) ==
               Called(m0, vm.mem, callee,
                      call_value(m0, caller, dest, callee, arg_count,
                                 argument_registers, moved, junk))
           \* pushed_bound: the pop follows call_value on both paths
           Popped(cv) == [vm |-> vm_pop(cv.vm), ok |-> cv.ok]
           CallBound(m0, m2, bound_value) ==
               Called(m0, m2.mem, bound_value,
                      Popped(call_value(m2, caller, dest, bound_value, arg_count,
                                        argument_registers, moved, junk)))
           \* registers[dest] through the window pointer read before the push
           Bind(m0, bound) ==
               CallBound(m0,
                         RegWrite(vm_push(bound.vm, value_make_obj(bound.ret), moved),
                                  Registers, dest, value_make_obj(bound.ret)),
                         value_make_obj(bound.ret))
           Invoke(m0) ==
               IF ~value_is_string(vm.mem, name_value) THEN Fail(m0, "OP_INVOKE")
               ELSE IF value_is_instance(vm.mem, receiver) THEN
                   LET instance == value_as_obj(receiver)
                       field == obj_instance_get_field(vm, instance, name)
                       method == obj_class_find_method(vm, vm.mem[instance].klass, name)
                       method_value == vm.mem[vm.mem[instance].klass].methods[method].value
                   IN IF field # 0 THEN Call(m0, vm.mem[instance].fields[field].value)
                      ELSE IF method = 0 THEN Fail(m0, "OP_INVOKE")
                      ELSE IF ~value_is_function(vm.mem, method_value)
                      THEN Fail(m0, "OP_INVOKE")
                      ELSE Bind(m0, obj_bound_method_new(m0, receiver,
                                                         value_as_obj(method_value)))
               ELSE IF value_is_class(vm.mem, receiver) THEN
                   LET method == obj_class_find_method(vm, value_as_obj(receiver), name)
                   IN IF method = 0 THEN Fail(m0, "OP_INVOKE")
                      ELSE Call(m0, vm.mem[value_as_obj(receiver)].methods[method].value)
               ELSE Fail(m0, "OP_INVOKE")
       IN Invoke(Advance(vm, 6 + arg_count))

OpReturn ==
    /\ Fetch("OP_RETURN")
    /\ LET src == Byte(vm, 1)
           frame == Top(vm)
           result_value == Reg(src)
           callee_registers == frame.registers
           caller_registers == frame.caller_registers
           return_reg == frame.return_reg
           m1 == [vm EXCEPT !.frames = SubSeq(@, 1, Len(@) - 1),
                            !.stack_top = callee_registers.off]
           made == hist[Len(hist)]
           info == [op |-> "OP_RETURN", value |-> result_value, depth |-> Len(vm.frames),
                    kind |-> made.kind, dest |-> made.dest, ret_ip |-> made.ret_ip,
                    instance |-> made.instance]
       IN IF Len(m1.frames) = 0
          THEN Finish(vm_reset_stack(m1), "INTERPRET_OK", result_value,
                      info @@ [returned |-> "INTERPRET_OK"], << >>)
          ELSE LET caller == m1.frames[Len(m1.frames)]
                   m2 == IF caller_registers # NullPtr
                         THEN RegWrite(m1, caller_registers, return_reg, result_value)
                         ELSE m1
               IN Finish([m2 EXCEPT !.stack_top =
                                        caller.registers.off
                                        + m2.mem[caller.function].register_count],
                         "continue", Null, info @@ [returned |-> "NONE"],
                         SubSeq(hist, 1, Len(hist) - 1))

\* ------------------------------------------------------------ the system
Next ==
    \/ Load
    \/ VmPush
    \/ VmPop
    \/ StringCopy
    \/ Collect
    \/ Interpret
    \/ OpLoadConst
    \/ OpMove
    \/ OpAdd
    \/ OpBuildArray
    \/ OpGetGlobal
    \/ OpDefineGlobal
    \/ OpSetGlobal
    \/ OpGetProperty
    \/ OpSetProperty
    \/ OpClass
    \/ OpMethod
    \/ OpCall
    \/ OpInvoke
    \/ OpReturn

Spec == Init /\ [][Next]_vars

\* ------------------------------------------------------------ compiler_compile, step by step
\* The programs compiled: class K { <method> }, the method a constructor
\* or a method named m, with no parameter or the parameter x, and a body
\* of at most MaxBody statements out of BodyStatements.
BodyStatements ==
    {LetStmt(Str_x, FALSE, NoExpr),
     LetStmt(Str_x, TRUE, ExprThis),
     ExprStmt(ExprThis),
     ExprStmt(ExprIdentifier(Str_x)),
     ReturnStmt(FALSE, NoExpr),
     ReturnStmt(TRUE, ExprThis),
     ReturnStmt(TRUE, ExprNull),
     BlockStmt(<<ReturnStmt(FALSE, NoExpr)>>),
     BlockStmt(<<LetStmt(Str_x, TRUE, ExprNull), ReturnStmt(FALSE, NoExpr)>>),
     BlockStmt(<<ReturnStmt(TRUE, ExprThis)>>),
     IfStmt(ExprThis, ReturnStmt(FALSE, NoExpr), << >>),
     IfStmt(ExprThis, ReturnStmt(FALSE, NoExpr), <<ReturnStmt(TRUE, ExprNull)>>),
     IfStmt(ExprNull, BlockStmt(<<LetStmt(Str_x, FALSE, NoExpr), ReturnStmt(FALSE, NoExpr)>>),
            << >>)}

Bodies == UNION {[1..n -> BodyStatements] : n \in 0..MaxBody}
Methods ==
    {[name |-> IF ctor THEN ConstructorName ELSE Str_m, is_constructor |-> ctor,
      parameters |-> parameters, body |-> body] :
        ctor \in BOOLEAN, parameters \in {<< >>, <<Str_x>>}, body \in Bodies}

Current == cc.compilers[Len(cc.compilers)]
K == Compiling(Current, vm, cc.globals, cc.error)
At(kind) == cc.phase = "compiling" /\ ~vm.ub /\ cc.work # << >> /\ Head(cc.work).kind = kind

\* Where one step of the compiler leaves it.  After a failure
\* compile_method (if a method was being compiled) and compiler_compile
\* each pop the function they had pushed, and NULL is returned.  After
\* exit(EXIT_FAILURE) nothing is returned: the process is gone (phase
\* "exited"), with the message, if any, unchanged.
Step(k, work) ==
    /\ vm' = IF k.ok THEN k.vm
             ELSE IF k.exited THEN vm
             ELSE IF Len(cc.compilers) > 1 THEN vm_pop(vm_pop(k.vm)) ELSE vm_pop(k.vm)
    /\ cc' = IF k.ok
             THEN [cc EXCEPT !.compilers[Len(cc.compilers)] = k.c, !.globals = k.globals,
                             !.error = k.error, !.work = work]
             ELSE IF k.exited
             THEN [cc EXCEPT !.phase = "exited", !.compilers = << >>, !.globals = << >>,
                             !.work = << >>]
             ELSE [cc EXCEPT !.phase = "failed", !.compilers = << >>, !.globals = << >>,
                             !.error = k.error, !.work = << >>]
    /\ UNCHANGED <<status, result, loaded, script, runs, pushes, last, hist, stores, parser>>

\* compiler_compile up to its loop over the statements
CompilerCompile ==
    /\ cc.phase = "none" /\ Idle /\ loaded = NoProgram /\ HasFree(vm, 2)
    /\ \E method \in Methods :
         LET Begin(fn) ==
                 /\ vm' = vm_push(fn.vm, value_make_obj(fn.ret), FALSE)
                 /\ cc' = [NoCompilation EXCEPT
                              !.phase = "compiling",
                              !.method = method,
                              !.compilers =
                                  <<compiler_init(FALSE, fn.ret, "FUNCTION_TYPE_SCRIPT")>>,
                              !.work = <<ClassStmt(Str_K), Then("program_end", 0, << >>)>>]
         IN Begin(obj_function_new(vm, Str_script, 0, FALSE))
    /\ UNCHANGED <<status, result, loaded, script, runs, pushes, last, hist, stores, parser>>

\* compile_class_statement up to its loop over the methods: the class is
\* a global at the script's scope depth 0, a local anywhere else
CompileClassStatement ==
    /\ At("STMT_CLASS") /\ HasFree(vm, 1)
    /\ LET name == Head(cc.work).name
           is_global == ~K.c.enclosing /\ K.c.scope_depth = 0
           Define(k3, class_reg, name_constant, global_index, local_slot) ==
               IF ~k3.ok THEN Step(k3, << >>)
               ELSE Step(IF is_global
                         THEN emit_op_define_global(emit_op_class(k3, class_reg, name_constant),
                                                    class_reg, global_index)
                         ELSE emit_op_move(Declare(emit_op_class(k3, class_reg, name_constant),
                                                   local_slot, k3.c.scope_depth),
                                           k3.c.locals[local_slot].reg, class_reg),
                         <<Then("method", class_reg, << >>), Then("class_end", 0, << >>)>>
                         \o Tail(cc.work))
           Register(k2, name_constant, global_index) ==
               IF ~k2.ok THEN Step(k2, << >>)
               ELSE Define(push_stack_slot(k2), stack_register(k2, k2.c.stack_depth),
                           name_constant, global_index, local_count(k2))
           Global(k1, name_constant) ==
               Register(IF is_global THEN global_table_add(k1, name) ELSE add_local(k1, name),
                        name_constant, Len(k1.globals))
           Name(k0) == Global(make_string_constant(k0, name), ConstantIndex(k0))
       IN Name(discard_pending_expression(K))

\* the parameters added last first
RECURSIVE AddParameters_LastFirst(_, _, _)
AddParameters_LastFirst(k, parameters, i) ==
    IF ~k.ok \/ i > Len(parameters) THEN k
    ELSE LET Parameter(k1) ==
                 AddParameters_LastFirst(IF k1.ok THEN Declare(k1, local_count(k1), 0) ELSE k1,
                                         parameters, i + 1)
         IN Parameter(add_local(k, parameters[Len(parameters) + 1 - i]))

RECURSIVE AddParameters(_, _, _)
AddParameters(k, parameters, i) ==
    IF ~k.ok \/ i > Len(parameters) THEN k
    ELSE LET Parameter(k1) ==
                 AddParameters(IF k1.ok THEN Declare(k1, local_count(k1), 0) ELSE k1,
                               parameters, i + 1)
         IN Parameter(add_local(k, parameters[i]))

\* compile_method up to the statements of the body: the function, the
\* child compiler with `this` and the parameters, and compile_function_body's
\* begin_scope
CompileMethod ==
    /\ At("method") /\ HasFree(vm, 2)
    /\ LET method == cc.method
           required_arity == Len(method.parameters) + 1
           type == IF method.is_constructor THEN "FUNCTION_TYPE_INITIALIZER"
                   ELSE "FUNCTION_TYPE_METHOD"
           Body(k3) ==
               /\ vm' = k3.vm
               /\ cc' = [cc EXCEPT !.compilers = Append(@, k3.c),
                                   !.error = k3.error,
                                   !.work = method.body
                                            \o <<Then("body_end", Head(cc.work).at, << >>)>>
                                            \o Tail(cc.work)]
               /\ UNCHANGED <<status, result, loaded, script, runs, pushes, last, hist, stores, parser>>
           Parameters(k1) ==
               Body(begin_scope(AddParameters(IF k1.ok THEN Declare(k1, local_count(k1), 0)
                                              ELSE k1,
                                              method.parameters, 1)))
           Child(fn) ==
               Parameters(add_local(Compiling(compiler_init(TRUE, fn.ret, type),
                                              vm_push(fn.vm, value_make_obj(fn.ret), FALSE),
                                              cc.globals, cc.error),
                                    Str_this))
       IN IF required_arity > UINT8_MAX
          THEN Step(Reject(K, "Method has too many parameters."), << >>)
          ELSE Child(obj_function_new(vm, method.name, required_arity, FALSE))

\* compile_let_statement
CompileLetStatement ==
    /\ At("STMT_LET")
    /\ LET statement == Head(cc.work)
           same(k0) == {i \in 1..local_count(k0) :
                           /\ k0.c.locals[i].name = statement.name
                           \* the loop stops at the first local of an outer scope
                           /\ \A j \in i..local_count(k0) :
                                 ~(k0.c.locals[j].depth # -1
                                   /\ k0.c.locals[j].depth < k0.c.scope_depth)}
           Declared(k3, slot) == Step(Declare(k3, slot, k3.c.scope_depth), Tail(cc.work))
           Initialize(k1, slot, k2) ==
               IF statement.has /\ ~k2.ok THEN Step(k2, << >>)
               ELSE Declared(IF statement.has
                             THEN pop_stack_slots(
                                      emit_op_move(k2, k1.c.locals[slot].reg,
                                                   stack_top_register(k2, 0)), 1)
                             ELSE emit_op_load_null(k1, k1.c.locals[slot].reg),
                             slot)
           Local(k1) ==
               IF ~k1.ok THEN Step(k1, << >>)
               ELSE Initialize(k1, local_count(k1),
                               IF statement.has THEN compile_expression(k1, statement.expr)
                               ELSE k1)
           DefineGlobal(k2, value_reg, index) ==
               Step(pop_stack_slots(
                        emit_op_define_global(IF statement.has THEN k2
                                              ELSE emit_op_load_null(k2, value_reg),
                                              value_reg, index), 1),
                    Tail(cc.work))
           GlobalValue(k2, index) ==
               IF ~k2.ok THEN Step(k2, << >>)
               ELSE DefineGlobal(k2, stack_top_register(k2, 0), index)
           Global(k1, index) ==
               IF ~k1.ok THEN Step(k1, << >>)
               ELSE GlobalValue(IF statement.has THEN compile_expression(k1, statement.expr)
                                ELSE push_stack_slot(k1),
                                index)
           Let(k0) ==
               IF k0.c.scope_depth > 0 THEN
                   IF same(k0) # {}
                   THEN Step(Reject(k0, "Variable already declared in this scope."), << >>)
                   ELSE Local(add_local(k0, statement.name))
               ELSE Global(global_table_add(k0, statement.name), Len(k0.globals))
       IN Let(discard_pending_expression(K))

\* compile_expression_statement
CompileExpressionStatement ==
    /\ At("STMT_EXPRESSION")
    /\ LET statement == Head(cc.work)
           Pending(k1) ==
               IF ~k1.ok THEN Step(k1, << >>)
               ELSE Step([k1 EXCEPT !.c.has_pending_expression = TRUE,
                                    !.c.pending_has_value = TRUE,
                                    !.c.pending_value = stack_top_register(k1, 0)],
                         Tail(cc.work))
           Dropped(k1) ==
               IF ~k1.ok THEN Step(k1, << >>) ELSE Step(pop_stack_slots(k1, 1), Tail(cc.work))
       IN IF K.c.scope_depth = 0 /\ ~K.c.enclosing
          THEN Pending(compile_expression(
                           IF K.c.has_pending_expression
                           THEN [pop_stack_slots(K, 1) EXCEPT
                                    !.c.has_pending_expression = FALSE,
                                    !.c.pending_has_value = FALSE]
                           ELSE K,
                           statement.expr))
          ELSE Dropped(compile_expression(K, statement.expr))

\* compile_return_statement
compile_return_statement(k, statement) ==
    LET Cleared(k1) ==
            IF ~k1.ok THEN k1
            ELSE [k1 EXCEPT !.c.has_pending_expression = FALSE,
                            !.c.pending_has_value = FALSE]
        Value(k2) ==
            IF ~k2.ok THEN k2
            ELSE pop_stack_slots(emit_return_value(k2, stack_top_register(k2, 0)), 1)
        Return(k0) ==
            IF k0.c.type = "FUNCTION_TYPE_INITIALIZER" /\ statement.has
            THEN Reject(k0, "Cannot return a value from constructor.")
            ELSE Cleared(IF statement.has
                         THEN Value(compile_expression(k0, statement.expr))
                         ELSE emit_return(k0))
    IN Return(discard_pending_expression(k))

CompileReturnStatement ==
    /\ At("STMT_RETURN")
    /\ LET Statement(k1) == Step(k1, IF k1.ok THEN Tail(cc.work) ELSE << >>)
       IN Statement(compile_return_statement(discard_pending_expression(K), Head(cc.work)))

\* compile_statement, STMT_BLOCK: begin_scope, then the statements, then end_scope
CompileBlock ==
    /\ At("STMT_BLOCK")
    /\ Step(begin_scope(discard_pending_expression(K)),
            Head(cc.work).body \o <<Then("end_scope", 0, << >>)>> \o Tail(cc.work))

EndScope ==
    /\ At("end_scope")
    /\ Step(end_scope(K), Tail(cc.work))

\* compile_if_statement: the condition and the jump over the then branch,
IfCondition ==
    /\ At("STMT_IF")
    /\ LET statement == Head(cc.work)
           Branch(k2) ==
               Step(pop_stack_slots(k2, 1),
                    statement.body \o <<Then("if_else", JumpOperand(k2), statement.els)>>
                    \o Tail(cc.work))
           Condition(k1) ==
               IF ~k1.ok THEN Step(k1, << >>)
               ELSE Branch(emit_jump_if_false(k1, stack_top_register(k1, 0)))
       IN Condition(compile_expression(discard_pending_expression(K), statement.expr))

\* the jump over the else branch once the then branch is compiled,
IfElse ==
    /\ At("if_else")
    /\ LET Else(k1) ==
               Step(patch_jump(k1, Head(cc.work).at),
                    Head(cc.work).els \o <<Then("if_end", JumpOperand(k1), << >>)>>
                    \o Tail(cc.work))
       IN Else(emit_jump_unconditional(K))

\* and the end of the statement
IfEnd ==
    /\ At("if_end")
    /\ Step(patch_jump(K, Head(cc.work).at), Tail(cc.work))

\* compile_while_statement: the condition and the jump out of the loop,
WhileCondition ==
    /\ At("STMT_WHILE")
    /\ LET statement == Head(cc.work)
           Body(k2, loop_start) ==
               Step(pop_stack_slots(k2, 1),
                    statement.body \o <<After("while_end", JumpOperand(k2), loop_start)>>
                    \o Tail(cc.work))
           Condition(k1, loop_start) ==
               IF ~k1.ok THEN Step(k1, << >>)
               ELSE Body(emit_jump_if_false(k1, stack_top_register(k1, 0)), loop_start)
           Start(k0) == Condition(compile_expression(k0, statement.expr), chunk_count(k0))
       IN Start(discard_pending_expression(K))

\* and, once the body is compiled, the jump back and the patch of the jump out
WhileEnd ==
    /\ At("while_end")
    /\ LET Exit(k1) ==
               IF ~k1.ok THEN Step(k1, << >>)
               ELSE Step(patch_jump(k1, Head(cc.work).at), Tail(cc.work))
       IN Exit(emit_loop_instruction(K, Head(cc.work).name[1]))

\* the end of compile_function_body (end_scope, emit_return) and the rest
\* of compile_method, back in the enclosing compiler
MethodEnd ==
    /\ At("body_end") /\ HasFree(vm, 1)
    /\ LET class_reg == Head(cc.work).at
           function == Current.function
           Defined(k6) ==
               /\ vm' = k6.vm
               /\ cc' = [cc EXCEPT !.compilers = <<k6.c>>, !.globals = k6.globals,
                                   !.error = k6.error, !.compiled = function,
                                   !.work = Tail(cc.work)]
               /\ UNCHANGED <<status, result, loaded, script, runs, pushes, last, hist, stores, parser>>
           Method(k5, dest, name_index) ==
               Defined(pop_stack_slots(emit_op_method(k5, class_reg, name_index, dest), 1))
           Name(k4, dest) ==
               Method(make_string_constant(k4, cc.method.name), dest, ConstantIndex(k4))
           Constant(k2, dest) ==
               IF ~k2.ok THEN Step(k2, << >>)
               ELSE Name([emit_op_load_constant(k2, dest, value_make_obj(function))
                             EXCEPT !.vm = vm_pop(@)],
                         dest)
           Enclosing(enclosing) ==
               Constant(push_stack_slot(enclosing),
                        stack_register(enclosing, enclosing.c.stack_depth))
           Body(k1) ==
               IF ~k1.ok THEN Step(k1, << >>)
               ELSE Enclosing(Compiling(cc.compilers[Len(cc.compilers) - 1], k1.vm,
                                        k1.globals, k1.error))
       IN Body(emit_return(end_scope(K)))

\* the end of compile_class_statement
ClassEnd ==
    /\ At("class_end")
    /\ Step(pop_stack_slots(K, 1), Tail(cc.work))

\* the end of compiler_compile: the script's return, and the function
\* comes off the VM's stack
ProgramEnd ==
    /\ At("program_end")
    /\ LET Ended(k1) ==
               IF ~k1.ok THEN Step(k1, << >>)
               ELSE /\ vm' = vm_pop(k1.vm)
                    /\ cc' = [cc EXCEPT !.phase = "done", !.compilers = << >>,
                                        !.globals = << >>,
                                        !.error = k1.error, !.work = << >>,
                                        !.function = K.c.function]
                    /\ UNCHANGED <<status, result, loaded, script, runs, pushes, last, hist, stores, parser>>
       IN Ended(emit_return(K))

\* ------------------------------------------------------------ compiler_run_program
\* The scripts compiled and run: at most MaxScript top-level statements out
\* of ScriptStatements (a class statement is class K { m() { } }).
MaxScript == 2
ScriptStatements ==
    {ExprStmt(ExprNumber(5)),
     ExprStmt(ExprNull),
     ExprStmt(ExprIdentifier(Str_x)),
     LetStmt(Str_x, TRUE, ExprNumber(7)),
     BlockStmt(<<ExprStmt(ExprNumber(5))>>),
     IfStmt(ExprBool(TRUE), ExprStmt(ExprNumber(5)), << >>),
     IfStmt(ExprBool(FALSE), ExprStmt(ExprNumber(5)), <<ExprStmt(ExprNumber(6))>>),
     IfStmt(ExprBool(FALSE), BlockStmt(<<ExprStmt(ExprNumber(5))>>), << >>),
     ClassStmt(Str_K)}
Scripts == UNION {[1..n -> ScriptStatements] : n \in 0..MaxScript}
ScriptMethod ==
    [name |-> Str_m, is_constructor |-> FALSE, parameters |-> << >>, body |-> << >>]

\* compiler_compile on a script, up to its loop over the statements
CompileScript ==
    /\ cc.phase = "none" /\ Idle /\ loaded = NoProgram /\ HasFree(vm, 2)
    /\ \E program \in Scripts :
         LET Begin(fn) ==
                 /\ vm' = vm_push(fn.vm, value_make_obj(fn.ret), FALSE)
                 /\ cc' = [NoCompilation EXCEPT
                              !.phase = "compiling",
                              !.method = ScriptMethod,
                              !.program = program,
                              !.compilers =
                                  <<compiler_init(FALSE, fn.ret, "FUNCTION_TYPE_SCRIPT")>>,
                              !.work = program \o <<Then("program_end", 0, << >>)>>]
         IN Begin(obj_function_new(vm, Str_script, 0, FALSE))
    /\ UNCHANGED <<status, result, loaded, script, runs, pushes, last, hist, stores, parser>>

\* compiler_run_program once compiler_compile has returned the function:
\* vm_interpret up to the call of run()
RunCompiled ==
    /\ runs' = runs + 1
    /\ pushes' = 0
    /\ script' = cc.function
    /\ IF vm.mem[cc.function].arity # 0
       THEN /\ vm' = runtime_error(vm)
            /\ status' = "idle"
            /\ result' = [code |-> "INTERPRET_RUNTIME_ERROR", value |-> Null]
            /\ hist' = << >>
            /\ last' = [op |-> "vm_interpret", returned |-> "INTERPRET_RUNTIME_ERROR"]
       ELSE LET m1 == vm_push(ensure_frame_capacity(vm_reset_stack(vm), 1),
                              value_make_obj(cc.function), FALSE)
                cf == call_function(m1, 0, cc.function, 0, 0, << >>, FALSE, FALSE)
            IN /\ vm' = cf.vm
               /\ status' = IF cf.ok THEN "running" ELSE "idle"
               /\ result' = IF cf.ok THEN NoResult
                            ELSE [code |-> "INTERPRET_RUNTIME_ERROR", value |-> Null]
               /\ hist' = IF cf.ok THEN <<Created("vm_interpret", 0, 0, NULL)>> ELSE << >>
               /\ last' = [op |-> "vm_interpret",
                           returned |-> IF cf.ok THEN "NONE" ELSE "INTERPRET_RUNTIME_ERROR"]
    /\ UNCHANGED <<loaded, cc, stores, parser>>
RunProgram == cc.phase = "done" /\ Idle /\ runs = 0 /\ RunCompiled

\* ------------------------------------------------------------ a second run on the same VM
\* The embedder's first program has ended in a runtime error; it then
\* compiles the script `5;` on the same VM and interprets it.
AfterError == runs = 1 /\ status = "idle" /\ result.code = "INTERPRET_RUNTIME_ERROR"

\* compiler_compile on the second script, up to its loop over the statements
CompileAgain ==
    /\ AfterError /\ ~vm.ub /\ cc.phase = "none" /\ HasFree(vm, 2)
    /\ LET fn == obj_function_new(vm, Str_script, 0, FALSE)
           m1 == vm_push(fn.vm, value_make_obj(fn.ret), FALSE)
       IN /\ vm' = m1
          /\ cc' = [NoCompilation EXCEPT
                       !.phase = "compiling",
                       !.method = ScriptMethod,
                       !.program = <<ExprStmt(ExprNumber(5))>>,
                       !.compilers = <<compiler_init(FALSE, fn.ret, "FUNCTION_TYPE_SCRIPT")>>,
                       !.work = <<ExprStmt(ExprNumber(5)), Then("program_end", 0, << >>)>>]
    /\ last' = [op |-> "compiler_compile"]
    /\ UNCHANGED <<status, result, loaded, script, runs, pushes, hist, stores, parser>>

\* vm_interpret of the second script, up to the call of run()
RunAgain == cc.phase = "done" /\ AfterError /\ ~vm.ub /\ RunCompiled

NextRerun ==
    \/ Load
    \/ Interpret
    \/ OpLoadConst
    \/ OpMove
    \/ OpAdd
    \/ OpBuildArray
    \/ OpGetGlobal
    \/ OpDefineGlobal
    \/ OpSetGlobal
    \/ OpGetProperty
    \/ OpSetProperty
    \/ OpClass
    \/ OpMethod
    \/ OpCall
    \/ OpInvoke
    \/ OpReturn
    \/ CompileAgain
    \/ CompileExpressionStatement
    \/ ProgramEnd
    \/ RunAgain

SpecRerun == Init /\ [][NextRerun]_vars

\* ------------------------------------------------------------ calls of values of every kind
NextCallee ==
    \/ LoadCallee
    \/ Interpret
    \/ OpLoadConst
    \/ OpLoadNull
    \/ OpLoadTrue
    \/ OpMove
    \/ OpBuildArray
    \/ OpSetProperty
    \/ OpClass
    \/ OpMethod
    \/ OpCall
    \/ OpInvoke
    \/ OpReturn

SpecCallee == Init /\ [][NextCallee]_vars

\* ------------------------------------------------------------ allocation against the threshold
\* The embedder collects when it likes; the programs allocate arrays.
NextThreshold ==
    \/ LoadArrays
    \/ Collect
    \/ Interpret
    \/ OpLoadConst
    \/ OpBuildArray
    \/ OpAdd
    \/ OpReturn

SpecThreshold == Init /\ [][NextThreshold]_vars

\* ------------------------------------------------------------ ADD on operands of every kind
NextAdd ==
    \/ LoadAdd
    \/ Interpret
    \/ OpLoadConst
    \/ OpLoadNull
    \/ OpBuildArray
    \/ OpAdd
    \/ OpReturn

SpecAdd == Init /\ [][NextAdd]_vars

\* Runs of the indexing programs.
NextIndex ==
    \/ LoadIndex
    \/ Interpret
    \/ OpLoadConst
    \/ OpLoadNull
    \/ OpLoadTrue
    \/ OpMove
    \/ OpBuildArray
    \/ OpArrayGet
    \/ OpReturn

SpecIndex == Init /\ [][NextIndex]_vars

\* Runs of the comparing programs.
NextEqual ==
    \/ LoadEqual
    \/ Interpret
    \/ OpLoadConst
    \/ OpLoadNull
    \/ OpLoadTrue
    \/ OpLoadFalse
    \/ OpMove
    \/ OpBuildArray
    \/ OpEqual
    \/ OpReturn

SpecEqual == Init /\ [][NextEqual]_vars

\* ------------------------------------------------------------ compiler_run_source
\* The source texts: every text of at most MaxTokens tokens out of
\* TokenKinds, and the longer texts of LongSources.
MaxTokens == 4
TokenKinds ==
    {TokNumber(1), TokIdentifier(Str_x), Tok("TOKEN_KEYWORD_NULL"), Tok("TOKEN_SEMICOLON"),
     Tok("TOKEN_LBRACE"), Tok("TOKEN_RBRACE"), Tok("TOKEN_KEYWORD_LET"), Tok("TOKEN_EQUAL"),
     Tok("TOKEN_MINUS"), TokError}
T_let == Tok("TOKEN_KEYWORD_LET")
T_x == TokIdentifier(Str_x)
T_eq == Tok("TOKEN_EQUAL")
T_semi == Tok("TOKEN_SEMICOLON")
T_lbrace == Tok("TOKEN_LBRACE")
T_rbrace == Tok("TOKEN_RBRACE")
T_minus == Tok("TOKEN_MINUS")
T_null == Tok("TOKEN_KEYWORD_NULL")
\* let x; { let x = x; } -null;
Source_StaleMessage ==
    <<T_let, T_x, T_semi, T_lbrace, T_let, T_x, T_eq, T_x, T_semi, T_rbrace,
      T_minus, T_null, T_semi>>
\* let x; { let x = x; } 1;
Source_StaleMessageOk ==
    <<T_let, T_x, T_semi, T_lbrace, T_let, T_x, T_eq, T_x, T_semi, T_rbrace,
      TokNumber(1), T_semi>>
\* let x = 1; x = x - 1; x;
Source_Countdown ==
    <<T_let, T_x, T_eq, TokNumber(1), T_semi, T_x, T_eq, T_x, T_minus, TokNumber(1), T_semi,
      T_x, T_semi>>
\* { let x; x = 1; x; }
Source_Local ==
    <<T_lbrace, T_let, T_x, T_semi, T_x, T_eq, TokNumber(1), T_semi, T_x, T_semi, T_rbrace>>
\* { 1; ; }
Source_BlockRecovery == <<T_lbrace, TokNumber(1), T_semi, T_semi, T_rbrace>>
LongSources ==
    {Source_StaleMessage, Source_StaleMessageOk, Source_Countdown, Source_Local,
     Source_BlockRecovery}
Sources == (UNION {[1..n -> TokenKinds] : n \in 0..MaxTokens}) \cup LongSources

Parsing == parser.phase = "parsing" /\ ~vm.ub
\* the condition of the loop parser_parse or parse_block is in
LoopCondition ==
    IF Len(parser.open) = 1
    THEN parser.p.current.type # "TOKEN_EOF" /\ ~parser.p.had_error
    ELSE ~check(parser.p, "TOKEN_RBRACE") /\ parser.p.current.type # "TOKEN_EOF"

\* What the loop does with the declaration it asked for: a NULL makes it
\* synchronize and go on (parse_block leaves its loop at a `}`, where its
\* condition ends it as well), a statement is appended to its list.
Deliver(decl, open) ==
    /\ parser' = [parser EXCEPT
                      !.p = IF decl.ret.kind = "none" THEN synchronize(decl.p) ELSE decl.p,
                      !.open = IF decl.ret.kind = "none" THEN open
                               ELSE [open EXCEPT ![Len(open)] = Append(@, decl.ret)]]
    /\ UNCHANGED <<vm, status, result, loaded, script, runs, pushes, last, hist, cc, stores>>

\* compiler_run_source up to the loop of parser_parse
ParserParse ==
    /\ parser.phase = "none" /\ cc.phase = "none" /\ Idle /\ loaded = NoProgram
    /\ \E source \in Sources :
         parser' = [NoParse EXCEPT !.phase = "parsing", !.p = parser_init(source),
                                   !.open = << << >> >>]
    /\ UNCHANGED <<vm, status, result, loaded, script, runs, pushes, last, hist, cc, stores>>

\* one pass through the loop, for a declaration that is not a block
ParseDeclaration ==
    /\ Parsing /\ LoopCondition /\ ~check(parser.p, "TOKEN_LBRACE")
    /\ Deliver(parse_declaration(parser.p), parser.open)

\* one pass through the loop up to the loop of parse_block
ParseBlock ==
    /\ Parsing /\ LoopCondition /\ check(parser.p, "TOKEN_LBRACE")
    /\ parser' = [parser EXCEPT !.p = advance(@), !.open = Append(@, << >>)]
    /\ UNCHANGED <<vm, status, result, loaded, script, runs, pushes, last, hist, cc, stores>>

\* parse_block after its loop, and the rest of the pass of the loop
\* around it
BlockEnd ==
    /\ Parsing /\ Len(parser.open) > 1 /\ ~LoopCondition
    /\ Deliver(StatementIf(consume(parser.p, "TOKEN_RBRACE", "Expect '}' after block."),
                           BlockStmt(parser.open[Len(parser.open)])),
               SubSeq(parser.open, 1, Len(parser.open) - 1))

\* parser_parse after its loop
ParserReturn ==
    /\ Parsing /\ Len(parser.open) = 1 /\ ~LoopCondition
    /\ parser' = [parser EXCEPT
                      !.phase = "returned",
                      !.open = << >>,
                      !.null = parser.p.had_error,
                      !.program = IF parser.p.had_error THEN << >> ELSE parser.open[1],
                      !.message = IF ~parser.p.had_error THEN ""
                                  ELSE IF parser.p.error_message = "" THEN "Parse error"
                                  ELSE parser.p.error_message]
    /\ UNCHANGED <<vm, status, result, loaded, script, runs, pushes, last, hist, cc, stores>>

\* compiler_run_program up to the loop of compiler_compile, on the program
\* parser_parse returned
CompileSource ==
    /\ parser.phase = "returned" /\ ~parser.null /\ parser.ok = "none"
    /\ cc.phase = "none" /\ Idle /\ HasFree(vm, 2)
    /\ LET fn == obj_function_new(vm, Str_script, 0, FALSE)
           m1 == vm_push(fn.vm, value_make_obj(fn.ret), FALSE)
       IN /\ vm' = m1
          /\ cc' = [NoCompilation EXCEPT
                       !.phase = "compiling",
                       !.method = ScriptMethod,
                       !.program = parser.program,
                       !.compilers = <<compiler_init(FALSE, fn.ret, "FUNCTION_TYPE_SCRIPT")>>,
                       !.work = parser.program \o <<Then("program_end", 0, << >>)>>]
    /\ UNCHANGED <<status, result, loaded, script, runs, pushes, last, hist, stores, parser>>

\* Where compiler_run_source returns: after parser_parse if it returned
\* NULL, after compiler_compile if it returned NULL, and after
\* vm_interpret.  The message of a failed parse is handed back if
\* *error_message is still NULL; compiler_errorf keeps the first message.
RunSourceReturn ==
    /\ parser.phase = "returned" /\ parser.ok = "none" /\ Idle
    /\ \/ parser.null
       \/ cc.phase = "failed"
       \/ cc.phase = "done" /\ runs = 1
    /\ parser' = [parser EXCEPT
                      !.ok = IF ~parser.null /\ cc.phase = "done" /\ result.code = "INTERPRET_OK"
                             THEN "true" ELSE "false"]
    /\ cc' = IF parser.null
             THEN [cc EXCEPT !.error = IF @ = "" THEN parser.message ELSE @]
             ELSE IF cc.phase = "done" /\ result.code # "INTERPRET_OK"
             THEN [cc EXCEPT !.error = IF @ = "" THEN "Runtime error during execution." ELSE @]
             ELSE cc
    /\ UNCHANGED <<vm, status, result, loaded, script, runs, pushes, last, hist, stores>>

NextSource ==
    \/ ParserParse
    \/ ParseDeclaration
    \/ ParseBlock
    \/ BlockEnd
    \/ ParserReturn
    \/ CompileSource
    \/ CompileLetStatement
    \/ CompileExpressionStatement
    \/ CompileBlock
    \/ EndScope
    \/ ProgramEnd
    \/ RunProgram
    \/ RunSourceReturn
    \/ OpLoadConst
    \/ OpLoadNull
    \/ OpMove
    \/ OpSubtract
    \/ OpNegate
    \/ OpGetGlobal
    \/ OpDefineGlobal
    \/ OpSetGlobal
    \/ OpReturn

SpecSource == Init /\ [][NextSource]_vars

NextScript ==
    \/ CompileScript
    \/ CompileClassStatement
    \/ CompileMethod
    \/ CompileLetStatement
    \/ CompileExpressionStatement
    \/ CompileBlock
    \/ EndScope
    \/ IfCondition
    \/ IfElse
    \/ IfEnd
    \/ MethodEnd
    \/ ClassEnd
    \/ ProgramEnd
    \/ RunProgram
    \/ OpLoadConst
    \/ OpLoadNull
    \/ OpLoadTrue
    \/ OpLoadFalse
    \/ OpJump
    \/ OpJumpIfFalse
    \/ OpGetGlobal
    \/ OpDefineGlobal
    \/ OpClass
    \/ OpMethod
    \/ OpReturn

SpecScript == Init /\ [][NextScript]_vars

NextCompile ==
    \/ CompilerCompile
    \/ CompileClassStatement
    \/ CompileMethod
    \/ CompileLetStatement
    \/ CompileExpressionStatement
    \/ CompileReturnStatement
    \/ CompileBlock
    \/ EndScope
    \/ IfCondition
    \/ IfElse
    \/ IfEnd
    \/ MethodEnd
    \/ ClassEnd
    \/ ProgramEnd

SpecCompile == Init /\ [][NextCompile]_vars

\* ------------------------------------------------------------ properties
OnList(m, a) == \E i \in 1..Len(m.objects) : m.objects[i] = a
Strings(m) == {a \in Addr : OnList(m, a) /\ TypeOf(m.mem, a) = "string"}
CallOps == {"OP_CALL", "OP_INVOKE"}
Returned(code) == status = "idle" /\ "returned" \in DOMAIN last /\ last.returned = code
\* register i of the frame on top, read from the block the VM owns
CalleeReg(i) == Rd(vm.stack, Top(vm).registers.off + i)
Entered ==
    /\ last.ok
    /\ status = "running"
    /\ Len(vm.frames) = last.depth + 1
    /\ value_make_obj(Top(vm).function) = last.target
Refused ==
    /\ ~last.ok
    /\ Returned("INTERPRET_RUNTIME_ERROR")
    /\ Len(vm.frames) <= last.depth

\* C1: after a vm_push or a call has made the register stack grow, the
\* register window of every active frame (frame.registers and
\* frame.caller_registers) still designates slots of the stack the VM owns,
\* and the argument copy and the return-value writes went to live storage.
C1_GrowthKeepsWindows ==
    /\ \A i \in 1..Len(vm.frames) :
         /\ Live(vm, vm.frames[i].registers)
         /\ vm.frames[i].caller_registers # NullPtr
                => Live(vm, vm.frames[i].caller_registers)
    /\ ~vm.ub

\* the objects a cell refers to, as the claim lists them
ValueRefs(values) == {values[i].v : i \in {j \in 1..Len(values) : values[j].t = "obj"}}
PropertyRefs(props) ==
    {props[i].name : i \in 1..Len(props)}
    \cup {props[i].value.v : i \in {j \in 1..Len(props) : props[j].value.t = "obj"}}
Refs(mem, a) ==
    LET o == mem[a] IN
    CASE o.type = "function" -> ({o.name} \ {NULL}) \cup ValueRefs(o.constants)
      [] o.type = "array" -> ValueRefs(o.elements)
      [] o.type = "class" -> {o.name} \cup PropertyRefs(o.methods)
      [] o.type = "instance" -> {o.klass} \cup PropertyRefs(o.fields)
      [] o.type = "bound_method" ->
            {o.method} \cup (IF o.receiver.t = "obj" THEN {o.receiver.v} ELSE {})
      [] OTHER -> {}
Roots(m) ==
    {m.stack[i].v : i \in {j \in DOMAIN m.stack : j < m.stack_top /\ m.stack[j].t = "obj"}}
    \cup {m.frames[i].function : i \in 1..Len(m.frames)}
    \cup {m.globals[i].v : i \in {j \in 1..m.global_count :
                                     m.global_defined[j] /\ m.globals[j].t = "obj"}}
RECURSIVE ReachableFrom(_, _)
ReachableFrom(mem, set) ==
    LET more == set \cup UNION {Refs(mem, a) : a \in set} IN
    IF more = set THEN set ELSE ReachableFrom(mem, more)
Reachable(m) == ReachableFrom(m.mem, Roots(m))

\* C2: vm_collect_garbage frees no object reachable from a root (a stack
\* slot below stack_top, the function of an active frame, a defined global)
\* through references; every such object is still on the object list
\* afterwards with its contents unchanged.
C2_CollectKeepsReachable ==
    last.op = "vm_collect_garbage" =>
        \A a \in Reachable(last.before) :
            /\ OnList(vm, a)
            /\ vm.mem[a] = last.before.mem[a]

\* a collection that kept a bound method, its receiver and the receiver's
\* class alive through a global and freed some other object
C2_Witness ==
    /\ last.op = "vm_collect_garbage"
    /\ \E a \in Reachable(last.before) :
         /\ last.before.mem[a].type = "bound_method"
         /\ last.before.mem[a].receiver.v \in Reachable(last.before)
    /\ \E a \in Addr : last.before.mem[a].type # "free" /\ vm.mem[a].type = "free"

\* C3: no two string objects on the object list have the same bytes; a
\* string created with content that already exists is the existing object;
\* an intern-table lookup that succeeds returns the one object with that
\* content.
C3_InternedOnce ==
    /\ \A a \in Strings(vm), b \in Strings(vm) :
          vm.mem[a].chars = vm.mem[b].chars => a = b
    /\ \A a \in Strings(vm) :
          table_find_string(vm, vm.mem[a].chars, vm.mem[a].hash) = a
    /\ last.op = "obj_string_copy" =>
          /\ last.ret \in Strings(vm)
          /\ vm.mem[last.ret].chars = last.chars
          /\ last.existing # {} => last.ret \in last.existing

\* obj_string_copy was asked for content that existed and returned that
\* object, with another string on the list beside it
C3_Witness ==
    /\ last.op = "obj_string_copy"
    /\ last.existing # {}
    /\ Cardinality(Strings(vm)) >= 2

\* C4: after vm_collect_garbage the intern table holds exactly the strings
\* that survived, and in no state does the table hold (so that
\* table_find_string could return) a freed string.
C4_TablePruned ==
    /\ \A i \in 1..Len(vm.strings) : vm.strings[i] \in Strings(vm)
    /\ last.op = "vm_collect_garbage" =>
          /\ {vm.strings[i] : i \in 1..Len(vm.strings)} = Strings(vm)
          /\ Strings(vm) =
                {a \in Strings(last.before) : a \in Reachable(last.before)}
          /\ \A a \in Strings(last.before) :
                table_find_string(vm, last.before.mem[a].chars, last.before.mem[a].hash)
                    = IF a \in Strings(vm) THEN a ELSE NULL

\* a collection that freed one interned string and kept another
C4_Witness ==
    /\ last.op = "vm_collect_garbage"
    /\ Strings(vm) # {}
    /\ Strings(last.before) \ Strings(vm) # {}

\* C5: when vm_interpret returns INTERPRET_RUNTIME_ERROR the register stack
\* is empty (stack_top at the base) and there are no call frames.
C5_ErrorLeavesEmpty ==
    Returned("INTERPRET_RUNTIME_ERROR") => vm.stack_top = 0 /\ Len(vm.frames) = 0

\* C6: a call of a function value with n argument registers goes through
\* exactly when n is the arity; the callee then has in register i < arity
\* what the caller's i-th named argument register held, and null in every
\* other register; otherwise a runtime error and no frame pushed.
C6_FunctionCall ==
    (last.op \in CallOps /\ last.kind = "function") =>
        IF last.n = last.arity
        THEN /\ Entered
             /\ \A i \in 0..(last.register_count - 1) :
                   CalleeReg(i) = IF i < last.arity THEN last.args[i + 1] ELSE Null
        ELSE Refused

\* C7: RETURN src in a frame that has a caller pops that frame, stores
\* registers[src] in the caller's register the creating CALL or INVOKE
\* named as destination and goes on after that call; in the outermost
\* frame it ends vm_interpret with INTERPRET_OK and that value.
C7_ReturnProtocol ==
    last.op = "OP_RETURN" =>
        IF last.depth > 1
        THEN /\ status = "running"
             /\ Len(vm.frames) = last.depth - 1
             /\ CalleeReg(last.dest) = last.value
             /\ Top(vm).ip = last.ret_ip
        ELSE /\ Returned("INTERPRET_OK")
             /\ result = [code |-> "INTERPRET_OK", value |-> last.value]
             /\ Len(vm.frames) = 0

\* C8: a call of a bound method (receiver r, method f) with n arguments
\* goes through exactly when n = arity(f) - 1; f then has r in register 0
\* and the arguments in registers 1..n; otherwise a runtime error.
C8_BoundMethodCall ==
    (last.op \in CallOps /\ last.kind = "bound_method") =>
        IF last.n = last.arity - 1
        THEN /\ Entered
             /\ CalleeReg(0) = last.receiver
             /\ \A i \in 1..last.n : CalleeReg(i) = last.args[i]
        ELSE Refused

\* C9: a call of a class makes a fresh instance of it the value of the
\* call: a constructor runs with the instance in register 0 and the
\* arguments after it (n must be its arity - 1, else runtime error) and its
\* return leaves the instance in the destination; with no constructor and
\* no argument the call is complete with the instance in the destination;
\* with no constructor and an argument it is a runtime error.
C9_ClassCall ==
    /\ (last.op \in CallOps /\ last.kind = "class") =>
          IF last.arity # -1
          THEN IF last.n = last.arity - 1
               THEN /\ Entered
                    /\ last.instance # NULL
                    /\ vm.mem[last.instance].klass = last.callee.v
                    /\ CalleeReg(0) = value_make_obj(last.instance)
                    /\ \A i \in 1..last.n : CalleeReg(i) = last.args[i]
               ELSE Refused
          ELSE IF last.n = 0
               THEN /\ last.ok /\ status = "running"
                    /\ Len(vm.frames) = last.depth
                    /\ last.instance # NULL
                    /\ vm.mem[last.instance].klass = last.callee.v
                    /\ CalleeReg(last.dest) = value_make_obj(last.instance)
               ELSE Refused
    /\ (last.op = "OP_RETURN" /\ last.kind = "class") =>
          CalleeReg(last.dest) = value_make_obj(last.instance)

\* the length of the instruction at offset pc, as run decodes it
InstrLen(code, pc) ==
    LET name == OpNames[code[pc + 1] + 1] IN
    CASE name \in {"OP_LOAD_NULL", "OP_LOAD_TRUE", "OP_LOAD_FALSE", "OP_RETURN"} -> 2
      [] name \in {"OP_MOVE", "OP_NEGATE", "OP_NOT", "OP_JUMP", "OP_LOOP"} -> 3
      [] name \in {"OP_GET_PROPERTY", "OP_SET_PROPERTY", "OP_METHOD"} -> 5
      [] name = "OP_BUILD_ARRAY" -> 3 + code[pc + 3]
      [] name = "OP_CALL" -> 4 + code[pc + 4]
      [] name = "OP_INVOKE" -> 6 + code[pc + 6]
      [] OTHER -> 4
\* the operands of the RETURN instructions of a chunk, in order
RECURSIVE ReturnOperands(_, _)
ReturnOperands(code, pc) ==
    IF pc >= Len(code) THEN << >>
    ELSE (IF code[pc + 1] = Op("OP_RETURN") THEN <<code[pc + 2]>> ELSE << >>)
         \o ReturnOperands(code, pc + InstrLen(code, pc))
\* the return statements among some statements and the statements in them
RECURSIVE Returns(_)
Returns(statements) ==
    IF statements = << >> THEN << >>
    ELSE (IF Head(statements).kind = "STMT_RETURN" THEN <<Head(statements)>> ELSE << >>)
         \o Returns(Head(statements).body) \o Returns(Head(statements).els)
         \o Returns(Tail(statements))
ReturnsValue(statements) == \E i \in 1..Len(Returns(statements)) : Returns(statements)[i].has

\* C10: a constructor the compiler has accepted returns register 0, the
\* receiver `this`, at the end of its body and at every bare `return;`, and
\* a constructor holding a `return expr;` is not accepted: compilation
\* fails.
C10_ConstructorReturnsReceiver ==
    /\ (cc.method.is_constructor /\ cc.compiled # NULL) =>
          LET function == vm.mem[cc.compiled]
              operands == ReturnOperands(function.code, 0)
          IN /\ ~ReturnsValue(cc.method.body)
             /\ Len(operands) = Len(Returns(cc.method.body)) + 1
             /\ \A i \in 1..Len(operands) : operands[i] = 0
             /\ SubSeq(function.code, Len(function.code) - 1, Len(function.code))
                    = I_RETURN(0)
             /\ function.arity = Len(cc.method.parameters) + 1
    /\ (cc.method.is_constructor /\ cc.phase = "compiling" /\ Len(cc.compilers) = 2) =>
          /\ Current.locals[1].name = Str_this
          /\ Current.locals[1].reg = 0
    /\ (cc.method.is_constructor /\ ReturnsValue(cc.method.body)) =>
          /\ cc.phase # "done"
          /\ cc.phase = "failed" => cc.error # ""

\* an accepted constructor with a bare return in a branch and statements
\* after it
C10_Witness ==
    /\ cc.phase = "done"
    /\ cc.method.is_constructor
    /\ Len(cc.method.body) = MaxBody
    /\ cc.method.body[1].kind = "STMT_IF"
    /\ Len(ReturnOperands(vm.mem[cc.compiled].code, 0)) >= 2

\* C11: GET_GLOBAL and SET_GLOBAL on a slot go through exactly when a
\* DEFINE_GLOBAL has executed on that slot before, and otherwise end the run
\* with a runtime error; a GET_GLOBAL that goes through yields the value
\* DEFINE_GLOBAL or SET_GLOBAL stored in the slot last; the slots marked
\* defined are at all times those a DEFINE_GLOBAL has executed on, each
\* holding the value stored last (a failed instruction changes no global).
C11_GlobalsDefinedBeforeUse ==
    /\ last.op \in {"OP_GET_GLOBAL", "OP_SET_GLOBAL"} =>
           IF last.slot \in DOMAIN stores
           THEN /\ status = "running"
                /\ last.returned = "NONE"
                /\ last.op = "OP_GET_GLOBAL" => CalleeReg(last.reg) = stores[last.slot]
           ELSE Returned("INTERPRET_RUNTIME_ERROR")
    /\ \A i \in 1..vm.global_capacity :
           /\ vm.global_defined[i] <=> (i - 1) \in DOMAIN stores
           /\ vm.global_defined[i] => i <= vm.global_count /\ vm.globals[i] = stores[i - 1]

\* a read of a global after a let and an assignment: the assigned value
C11_Witness ==
    /\ last.op = "OP_GET_GLOBAL"
    /\ last.returned = "NONE"
    /\ loaded.kind = "global" /\ loaded.get
    /\ stores[last.slot] = value_make_number(4)
    /\ CalleeReg(last.reg) = value_make_number(4)

\* the value of an expression of ScriptStatements (x is only ever given 7)
ValueOf(expression) ==
    CASE expression.kind = "EXPR_LITERAL_NUMBER" -> value_make_number(expression.value)
      [] expression.kind = "EXPR_LITERAL_BOOL" -> value_make_bool(expression.value)
      [] expression.kind = "EXPR_LITERAL_NULL" -> value_make_null
      [] expression.kind = "EXPR_IDENTIFIER" -> value_make_number(7)

\* C12: a script that runs to its end returns the value of its last
\* top-level statement when that is an expression statement, and null when
\* the last top-level statement is of another kind or the script is empty.
C12_ScriptResult ==
    (cc.phase = "done" /\ last.op = "OP_RETURN" /\ Returned("INTERPRET_OK")) =>
        result.value =
            IF cc.program # << >> /\ cc.program[Len(cc.program)].kind = "STMT_EXPRESSION"
            THEN ValueOf(cc.program[Len(cc.program)].expr)
            ELSE value_make_null

\* what compiler_run_source has returned, and the stage that failed
SourceReturned == parser.ok # "none"
ParseFailed == parser.null
CompileFailed == ~parser.null /\ cc.phase = "failed"
RunFailed == ~parser.null /\ cc.phase = "done" /\ result.code # "INTERPRET_OK"

\* C13: compiler_run_source runs parse, compile and interpret in that order
\* and stops at the first stage that fails: after a parse error nothing is
\* compiled or run, after a compile error nothing is run; it returns true
\* only if all three succeeded, and the message it hands back on a failure
\* is the one of the first failing stage.
C13_FirstFailingStage ==
    SourceReturned =>
        /\ parser.ok = "true" <=> ~ParseFailed /\ ~CompileFailed /\ ~RunFailed
        /\ ParseFailed => cc.phase = "none" /\ runs = 0 /\ cc.error = parser.message
        /\ CompileFailed =>
               /\ runs = 0
               /\ cc.error \notin {"", parser.message, "Runtime error during execution."}
        /\ RunFailed => cc.error = "Runtime error during execution."
\* C14: if the parser recorded an error (a lexer error token included),
\* parser_parse returns no program and the message it reports is that of
\* the first error recorded; with no error recorded it returns a program.
C14_FirstErrorReported ==
    parser.phase = "returned" =>
        IF parser.p.reported # << >>
        THEN /\ parser.null
             /\ parser.program = << >>
             /\ parser.message = parser.p.reported[1]
        ELSE ~parser.null /\ parser.message = ""

\* parser_parse has returned after a lexer error token and then a syntax
\* error
C14_Witness ==
    /\ parser.phase = "returned"
    /\ Len(parser.p.reported) = 2
    /\ parser.p.reported[1] = "Unexpected character"
    /\ parser.p.reported[2] = "Expect expression."
    /\ parser.message = "Unexpected character"
    /\ parser.null
\* A pass through the loop of parser_parse or parse_block that asks for a
\* declaration, gets NULL, and after synchronize has the parser exactly as
\* it was before: the loop's condition holds again, and the same pass
\* follows, for ever.
PassChangesNothing ==
    /\ Parsing /\ LoopCondition /\ ~check(parser.p, "TOKEN_LBRACE")
    /\ parse_declaration(parser.p).ret.kind = "none"
    /\ synchronize(parse_declaration(parser.p).p) = parser.p

\* C15: parser_parse returns for every source text, also for one with a
\* syntax error inside a block: every pass of error recovery consumes a
\* token or ends the loop, so that no pass can repeat for ever.
C15_RecoveryAdvances == ~PassChangesNothing

\* ------------------------------------------------------------ C16
\* The step that ends a run in a runtime error leaves every heap object and
\* every defined global as it was.
ErrorKeepsHeap ==
    (result' # result /\ result'.code = "INTERPRET_RUNTIME_ERROR") =>
        /\ \A a \in Addr : vm.mem[a].type # "free" => vm'.mem[a] = vm.mem[a]
        /\ \A i \in 1..vm.global_count :
              vm.global_defined[i] => /\ vm'.global_defined[i]
                                      /\ vm'.globals[i] = vm.globals[i]
SecondScript == runs >= 1 /\ (cc.phase # "none" \/ runs = 2)
SecondRunReturned == runs = 2 /\ status = "idle"

\* C16: after a run has ended in a runtime error the heap objects and the
\* defined globals are as they were when the error was raised, and the same
\* VM compiles and interprets another script (`5;`) with defined behaviour
\* and with the result it has on a VM whose stack and frames are empty:
\* INTERPRET_OK, no frame left, stack_top at the bottom of the stack.
C16_ReadyAfterError ==
    /\ [][ErrorKeepsHeap]_vars
    /\ [](SecondScript => ~vm.ub)
    /\ [](SecondRunReturned => /\ result.code = "INTERPRET_OK"
                               /\ vm.frames = << >>
                               /\ vm.stack_top = 0)

\* ------------------------------------------------------------ C17
\* The value a CALL or an INVOKE at the current instruction is about to call:
\* the callee register of CALL; for INVOKE the field of that name of the
\* receiving instance, or else the method of that name of its class, or the
\* method of that name of the receiving class.  NoCallee where there is none.
NoCallee == [t |-> "none", v |-> 0]
InvokeCallee ==
    LET receiver == Reg(Byte(vm, 2))
        name == value_as_obj(chunk_get_constant(Chunk(vm).constants, Short(vm, 3)))
    IN IF value_is_instance(vm.mem, receiver) THEN
           LET instance == value_as_obj(receiver)
               field == obj_instance_get_field(vm, instance, name)
               method == obj_class_find_method(vm, vm.mem[instance].klass, name)
           IN IF field # 0 THEN vm.mem[instance].fields[field].value
              ELSE IF method # 0 THEN vm.mem[vm.mem[instance].klass].methods[method].value
              ELSE NoCallee
       ELSE IF value_is_class(vm.mem, receiver) THEN
           LET method == obj_class_find_method(vm, value_as_obj(receiver), name)
           IN IF method # 0 THEN vm.mem[value_as_obj(receiver)].methods[method].value
              ELSE NoCallee
       ELSE NoCallee
CalleeNow ==
    IF Fetch("OP_CALL") THEN Reg(Byte(vm, 2))
    ELSE IF Fetch("OP_INVOKE") THEN InvokeCallee
    ELSE NoCallee
NotCallable(callee) == callee # NoCallee /\ CalleeKind(vm.mem, callee) = "other"

\* C17: a CALL or INVOKE whose callee value is not a function, a class or a
\* bound method ends the run with INTERPRET_RUNTIME_ERROR and pushes no call
\* frame.
C17_NonCallableCallee ==
    [][NotCallable(CalleeNow) =>
          /\ status' = "idle"
          /\ result'.code = "INTERPRET_RUNTIME_ERROR"
          /\ Len(vm'.frames) <= Len(vm.frames)
          /\ vm'.frames = << >>]_vars

\* an instance has just been called through INVOKE, found as a field of the receiver
C17_Witness ==
    /\ loaded.kind = "callee" /\ CalleeValues[loaded.a + 1] = "instance"
    /\ loaded.ctor /\ ~loaded.get
    /\ last.op = "OP_INVOKE" /\ last.returned = "INTERPRET_RUNTIME_ERROR"
    /\ last.kind = "other" /\ value_is_instance(vm.mem, last.callee)
    /\ status = "idle" /\ result.code = "INTERPRET_RUNTIME_ERROR" /\ vm.frames = << >>

\* ------------------------------------------------------------ C18
ObjectList(m) == {m.objects[i] : i \in 1..Len(m.objects)}
RECURSIVE SumAccounted(_, _)
SumAccounted(mem, set) ==
    IF set = {} THEN 0
    ELSE LET a == CHOOSE x \in set : TRUE
         IN Accounted(mem[a]) + SumAccounted(mem, set \ {a})

\* the embedder reads bytes_allocated, makes a string and collects at once
MeasuredThenCollected ==
    (last.op = "obj_string_copy" /\ last'.op = "vm_collect_garbage")
        => vm'.bytes_allocated <= last.measured

\* C18: bytes_allocated is always the sum of the accounted sizes of the
\* objects on the object list; after vm_collect_garbage every object that was
\* not reachable from a root is off the list and freed and bytes_allocated is
\* the sum over the objects that were reachable; and a collection that
\* follows the allocation of garbage leaves bytes_allocated no higher than
\* it was measured before that allocation.
C18_SweepAccounting ==
    /\ [](vm.bytes_allocated = SumAccounted(vm.mem, ObjectList(vm)))
    /\ [](last.op = "vm_collect_garbage" =>
            /\ \A a \in Addr \ Reachable(last.before) :
                  TypeOf(vm.mem, a) = "free" /\ a \notin ObjectList(vm)
            /\ vm.bytes_allocated = SumAccounted(last.before.mem, Reachable(last.before)))
    /\ [][MeasuredThenCollected]_vars

\* a collection has just freed a string the embedder had made
C18_Witness ==
    /\ last.op = "vm_collect_garbage"
    /\ vm.bytes_allocated < last.before.bytes_allocated
    /\ vm.bytes_allocated > 0
    /\ \E a \in Addr : /\ TypeOf(last.before.mem, a) = "string"
                        /\ a \notin Reachable(last.before)
                        /\ TypeOf(vm.mem, a) = "free"

\* ------------------------------------------------------------ C19
\* C19: no allocation leaves bytes_allocated above next_gc without a
\* collection having run: a step that raises bytes_allocated ends with
\* bytes_allocated at most the threshold, either because it stayed below the
\* threshold in force or because a collection ran and set the threshold to
\* at least bytes_allocated.
C19_CollectionAtThreshold ==
    [][vm'.bytes_allocated > vm.bytes_allocated
          => vm'.bytes_allocated <= vm'.next_gc]_vars

\* ------------------------------------------------------------ C20
\* What ADD at the current instruction is given, and the register it names
\* as read after the step from the block the VM then owns.
AddLeft == Reg(Byte(vm, 2))
AddRight == Reg(Byte(vm, 3))
AddResult == Rd(vm'.stack, Top(vm').registers.off + Byte(vm, 1))
OperandsKept ==
    \A x \in {AddLeft, AddRight} : value_is_obj(x) => vm'.mem[x.v] = vm.mem[x.v]
YieldsArray ==
    /\ status' = "running" /\ ~vm'.ub
    /\ value_is_array(vm'.mem, AddResult)
    /\ TypeOf(vm.mem, AddResult.v) = "free"
    /\ vm'.mem[AddResult.v].elements =
          vm.mem[AddLeft.v].elements
          \o (IF value_is_array(vm.mem, AddRight) THEN vm.mem[AddRight.v].elements
              ELSE <<AddRight>>)
YieldsString ==
    /\ status' = "running" /\ ~vm'.ub
    /\ value_is_string(vm'.mem, AddResult)
    /\ vm'.mem[AddResult.v].chars = vm.mem[AddLeft.v].chars \o vm.mem[AddRight.v].chars
    /\ \E i \in 1..Len(vm'.strings) : vm'.strings[i] = AddResult.v
    /\ \A a \in Addr : (TypeOf(vm'.mem, a) = "string"
                            /\ vm'.mem[a].chars = vm'.mem[AddResult.v].chars)
                         => a = AddResult.v
YieldsSum ==
    /\ status' = "running" /\ ~vm'.ub
    /\ AddResult = value_make_number(AddLeft.v + AddRight.v)
RaisesError == status' = "idle" /\ result'.code = "INTERPRET_RUNTIME_ERROR"

\* C20: ADD leaves its operands as they were; with an array on the left it
\* yields a newly allocated array of the left array's elements followed by
\* the right array's elements (or by the right value when that is no array),
\* with two strings their interned concatenation, with two numbers their
\* sum, and with any other operands it raises a runtime error.
C20_AddYields ==
    [][Fetch("OP_ADD") =>
          /\ OperandsKept
          /\ IF value_is_array(vm.mem, AddLeft) THEN YieldsArray
             ELSE IF value_is_string(vm.mem, AddLeft) /\ value_is_string(vm.mem, AddRight)
                  THEN YieldsString
             ELSE IF value_is_number(AddLeft) /\ value_is_number(AddRight) THEN YieldsSum
             ELSE RaisesError]_vars

\* ------------------------------------------------------------ C21
GetArray == Reg(Byte(vm, 2))
GetIndex == Reg(Byte(vm, 3))
GetResult == Rd(vm'.stack, Top(vm').registers.off + Byte(vm, 1))
\* an integer-valued number i with 0 <= i < length
IndexWithin(x, length) ==
    value_is_number(x) /\ Part(x) = "exact" /\ 0 <= x.v /\ x.v < length

\* C21: ARRAY_GET on an array with an integer-valued index i, 0 <= i < length,
\* goes on with element i in its destination register; on any other operand
\* or index (negative, fractional, too large, not a number) it raises a
\* runtime error.
C21_ArrayGet ==
    [][Fetch("OP_ARRAY_GET") =>
          IF /\ value_is_array(vm.mem, GetArray)
             /\ IndexWithin(GetIndex, Len(vm.mem[GetArray.v].elements))
          THEN /\ status' = "running" /\ ~vm'.ub
               /\ GetResult = vm.mem[GetArray.v].elements[GetIndex.v + 1]
          ELSE RaisesError]_vars

\* xs[1] of [7, 8] has been fetched: 8 is in the destination register
C21_Witness ==
    /\ loaded.kind = "index" /\ loaded.a = 0 /\ loaded.n = 1
    /\ last.op = "OP_ARRAY_GET" /\ last.returned = "NONE"
    /\ status = "running"
    /\ Reg(4) = value_make_number(8)

\* ------------------------------------------------------------ C22
EqualLeft == Reg(Byte(vm, 2))
EqualRight == Reg(Byte(vm, 3))
EqualResult == Rd(vm'.stack, Top(vm').registers.off + Byte(vm, 1))
\* the same variant, and both null, equal booleans, equal numbers, strings
\* of identical bytes, or the very same heap object
SameValue(mem, a, b) ==
    /\ a.t = b.t
    /\ \/ value_is_null(a)
       \/ value_is_bool(a) /\ a.v = b.v
       \/ value_is_number(a) /\ NumbersEqual(a, b)
       \/ value_is_string(mem, a) /\ value_is_string(mem, b)
             /\ mem[a.v].chars = mem[b.v].chars
       \/ value_is_obj(a) /\ a.v = b.v

\* C22: EQUAL never raises a runtime error: the run goes on, with true in
\* the destination register when the operands are the same value (same
\* variant; both null, equal booleans, equal numbers, strings of identical
\* bytes, or the same heap object) and false when they are not.
C22_EqualNeverRaises ==
    [][Fetch("OP_EQUAL") =>
          /\ status' = "running" /\ ~vm'.ub
          /\ EqualResult = value_make_bool(SameValue(vm.mem, EqualLeft, EqualRight))]_vars

\* "a" == "a" has yielded true, and [3] == [3] (two arrays) would not
C22_Witness ==
    /\ loaded.kind = "equal" /\ ~loaded.get
    /\ last.op = "OP_EQUAL" /\ status = "running"
    /\ value_is_string(vm.mem, Reg(0)) /\ value_is_string(vm.mem, Reg(1))
    /\ Reg(2) = value_make_bool(TRUE)

\* ------------------------------------------------------------ the registers of a function
\* The scripts compiled here are one block: LocalCounts `let` statements of
\* distinct names, then one statement out of LastStatements, so that the
\* locals and the temporaries of the last statement need 254 to 257
\* registers.
MaxLocals == 255
LocalCounts == {MaxLocals - 2, MaxLocals - 1, MaxLocals}
LocalName(i) == <<120, i>>
Str_y == <<121>>
LastStatements ==
    <<ExprStmt(ExprNumber(5)),
      ExprStmt(ExprBinary(ExprNumber(1), "TOKEN_PLUS", ExprNumber(2))),
      LetStmt(Str_y, FALSE, NoExpr),
      LetStmt(Str_y, TRUE, ExprNumber(7))>>
LocalsProgram(n, tail) ==
    <<BlockStmt([i \in 1..n |-> LetStmt(LocalName(i), FALSE, NoExpr)] \o <<LastStatements[tail]>>)>>
LocalsPrograms == {LocalsProgram(n, tail) : n \in LocalCounts, tail \in 1..Len(LastStatements)}

\* compiler_compile on one of these scripts, up to its loop over the statements
CompileLocals ==
    /\ cc.phase = "none" /\ Idle /\ loaded = NoProgram /\ HasFree(vm, 2)
    /\ \E program \in LocalsPrograms :
         LET Begin(fn) ==
                 /\ vm' = vm_push(fn.vm, value_make_obj(fn.ret), FALSE)
                 /\ cc' = [NoCompilation EXCEPT
                              !.phase = "compiling",
                              !.method = ScriptMethod,
                              !.program = program,
                              !.compilers =
                                  <<compiler_init(FALSE, fn.ret, "FUNCTION_TYPE_SCRIPT")>>,
                              !.work = program \o <<Then("program_end", 0, << >>)>>]
         IN Begin(obj_function_new(vm, Str_script, 0, FALSE))
    /\ UNCHANGED <<status, result, loaded, script, runs, pushes, last, hist, stores, parser>>

NextRegisters ==
    \/ CompileLocals
    \/ CompileLetStatement
    \/ CompileExpressionStatement
    \/ CompileBlock
    \/ EndScope
    \/ ProgramEnd

SpecRegisters == Init /\ [][NextRegisters]_vars

\* The layout run() reads: the places (from the opcode) of the register
\* operands of the instruction at ip (from 1), and the instruction's length.
OpcodeAt(code, ip) == OpNames[code[ip] + 1]
RegisterPlaces(code, ip) ==
    LET name == OpcodeAt(code, ip) IN
    CASE name \in {"OP_JUMP", "OP_LOOP"} -> {}
      [] name \in {"OP_LOAD_CONST", "OP_LOAD_NULL", "OP_LOAD_TRUE", "OP_LOAD_FALSE",
                   "OP_JUMP_IF_FALSE", "OP_RETURN", "OP_GET_GLOBAL", "OP_DEFINE_GLOBAL",
                   "OP_SET_GLOBAL", "OP_CLASS"} -> {1}
      [] name \in {"OP_MOVE", "OP_NEGATE", "OP_NOT", "OP_GET_PROPERTY"} -> {1, 2}
      [] name \in {"OP_ADD", "OP_SUBTRACT", "OP_MULTIPLY", "OP_DIVIDE", "OP_EQUAL",
                   "OP_GREATER", "OP_LESS", "OP_ARRAY_GET"} -> {1, 2, 3}
      [] name \in {"OP_SET_PROPERTY", "OP_METHOD"} -> {1, 4}
      [] name = "OP_CALL" -> {1, 2} \cup (4..(3 + code[ip + 3]))
      [] name = "OP_BUILD_ARRAY" -> {1} \cup (3..(2 + code[ip + 2]))
      [] name = "OP_INVOKE" -> {1, 2} \cup (6..(5 + code[ip + 5]))
InstructionLength(code, ip) ==
    LET name == OpcodeAt(code, ip) IN
    CASE name \in {"OP_LOAD_NULL", "OP_LOAD_TRUE", "OP_LOAD_FALSE", "OP_RETURN"} -> 2
      [] name \in {"OP_MOVE", "OP_NEGATE", "OP_NOT", "OP_JUMP", "OP_LOOP"} -> 3
      [] name \in {"OP_LOAD_CONST", "OP_ADD", "OP_SUBTRACT", "OP_MULTIPLY", "OP_DIVIDE",
                   "OP_EQUAL", "OP_GREATER", "OP_LESS", "OP_JUMP_IF_FALSE", "OP_GET_GLOBAL",
                   "OP_DEFINE_GLOBAL", "OP_SET_GLOBAL", "OP_ARRAY_GET", "OP_CLASS"} -> 4
      [] name \in {"OP_GET_PROPERTY", "OP_SET_PROPERTY", "OP_METHOD"} -> 5
      [] name = "OP_CALL" -> 4 + code[ip + 3]
      [] name = "OP_BUILD_ARRAY" -> 3 + code[ip + 2]
      [] name = "OP_INVOKE" -> 6 + code[ip + 5]

\* the starts of the next n instructions from ip on (fewer where the chunk
\* ends before), and where the last of them ends
NextInstruction(code, ip) ==
    IF ip > Len(code) THEN [starts |-> {}, end |-> ip]
    ELSE [starts |-> {ip}, end |-> ip + InstructionLength(code, ip)]
RECURSIVE InstructionsFrom(_, _, _)
InstructionsFrom(code, ip, n) ==
    IF n = 0 THEN [starts |-> {}, end |-> ip]
    ELSE IF n = 1 THEN NextInstruction(code, ip)
    ELSE CHOOSE both \in UNION {{[starts |-> first.starts \cup second.starts,
                                     end |-> second.end] :
                                       second \in {InstructionsFrom(code, first.end,
                                                                     n - n \div 2)}} :
                                    first \in {InstructionsFrom(code, ip, n \div 2)}} : TRUE
\* where the instructions of a chunk start (none is shorter than two bytes)
InstructionStarts(code) == InstructionsFrom(code, 1, Len(code) \div 2 + 1).starts
\* the register operands of the instructions of a chunk, as the bytes the
\* chunk holds (emit_byte casts each to uint8_t)
RegisterOperands(code) ==
    UNION {{code[ip + place] % (UINT8_MAX + 1) : place \in RegisterPlaces(code, ip)} :
               ip \in InstructionStarts(code)}

\* the functions compiler_compile has produced once it has returned one
ProducedFunctions ==
    IF cc.phase = "done" THEN {a \in Addr : TypeOf(vm.mem, a) = "function"} ELSE {}

\* the registers a block needs: its locals so far and, above them, the
\* temporaries of the statement being compiled
RECURSIVE Temporaries(_)
Temporaries(expression) ==
    IF expression.kind = "EXPR_BINARY"
    THEN LET l == Temporaries(expression.left)
             r == 1 + Temporaries(expression.right)
         IN IF l > r THEN l ELSE r
    ELSE IF expression.kind = "none" THEN 0 ELSE 1
LocalsUpTo(body, i) == Cardinality({j \in 1..i : body[j].kind = "STMT_LET"})
RegistersNeeded(body) ==
    LET need(i) == LocalsUpTo(body, i) + Temporaries(body[i].expr)
    IN CHOOSE n \in {need(i) : i \in 1..Len(body)} : \A i \in 1..Len(body) : need(i) <= n

\* C23: every register operand of every instruction of a function the
\* compiler produces is below that function's register_count, which is at
\* most 255; a block whose locals and temporaries need more registers makes
\* the compilation fail with a message, and only such a block does.
C23_RegistersWithinCount ==
    /\ \A f \in ProducedFunctions :
          /\ vm.mem[f].register_count <= UINT8_MAX
          /\ \A r \in RegisterOperands(vm.mem[f].code) : r < vm.mem[f].register_count
    /\ cc.phase \in {"done", "failed"} /\ cc.program \in LocalsPrograms =>
          /\ (cc.phase = "failed") = (RegistersNeeded(cc.program[1].body) > UINT8_MAX)
          /\ cc.phase = "failed" => cc.error # ""

\* 253 locals and 1 + 2: the sum is computed in registers 253 and 254 of 255
C23_Witness ==
    /\ cc.phase = "done" /\ cc.program = LocalsProgram(MaxLocals - 2, 2)
    /\ vm.mem[cc.function].register_count = UINT8_MAX
    /\ UINT8_MAX - 1 \in RegisterOperands(vm.mem[cc.function].code)

\* ------------------------------------------------------------ the jumps of a function
\* The scripts compiled here are `if (true) { B }`, `if (true) null; else { B }`
\* and `while (true) { B }`.  B is made of expression statements whose
\* bytecode has a known length, chosen so that the longest jump of the
\* statement needs one of OffsetsNeeded as its offset.
JumpShapes == {"then", "else", "while"}
OffsetsNeeded == {20, 101, UINT16_MAX - 1, UINT16_MAX, UINT16_MAX + 1, UINT16_MAX + 2}

\* a sum of `leaves` null literals: LOAD_NULL for each and an ADD for each +
RECURSIVE Balanced(_)
Balanced(leaves) ==
    IF leaves = 1 THEN ExprNull
    ELSE ExprBinary(Balanced(leaves \div 2), "TOKEN_PLUS", Balanced(leaves - leaves \div 2))
SumBytes(leaves) == 6 * leaves - 4
LongLeaves == 64
\* statements whose bytecode is `bytes` long: `!null;` takes 5 bytes
RECURSIVE PadEven(_)
PadEven(bytes) ==
    IF bytes = 0 THEN << >>
    ELSE LET leaves == (bytes + 4) \div 6
         IN <<ExprStmt(Balanced(leaves))>> \o PadEven(bytes - SumBytes(leaves))
Pad(bytes) ==
    IF bytes % 2 = 1
    THEN <<ExprStmt(ExprUnary("TOKEN_BANG", ExprNull))>> \o PadEven(bytes - 5)
    ELSE PadEven(bytes)
BodyOf(bytes) ==
    LET long == SumBytes(LongLeaves)
        count == IF bytes % long \in {1, 3} THEN bytes \div long - 1 ELSE bytes \div long
    IN [i \in 1..count |-> ExprStmt(Balanced(LongLeaves))] \o Pad(bytes - count * long)
\* what the longest jump of each statement spans besides B: the JUMP over
\* the else branch; nothing; the condition, the JUMP_IF_FALSE and the LOOP
Overhead(shape) ==
    CASE shape = "then" -> 3
      [] shape = "else" -> 0
      [] shape = "while" -> 9
JumpProgram(shape, needed) ==
    LET body == BlockStmt(BodyOf(needed - Overhead(shape))) IN
    CASE shape = "then" -> <<IfStmt(ExprBool(TRUE), body, << >>)>>
      [] shape = "else" -> <<IfStmt(ExprBool(TRUE), ExprStmt(ExprNull), <<body>>)>>
      [] shape = "while" -> <<WhileStmt(ExprBool(TRUE), body)>>
JumpPrograms == {JumpProgram(shape, needed) : shape \in JumpShapes, needed \in OffsetsNeeded}

\* compiler_compile on one of these scripts, up to its loop over the statements
CompileJumps ==
    /\ cc.phase = "none" /\ Idle /\ loaded = NoProgram /\ HasFree(vm, 2)
    /\ \E program \in JumpPrograms :
         LET Begin(fn) ==
                 /\ vm' = vm_push(fn.vm, value_make_obj(fn.ret), FALSE)
                 /\ cc' = [NoCompilation EXCEPT
                              !.phase = "compiling",
                              !.method = ScriptMethod,
                              !.program = program,
                              !.compilers =
                                  <<compiler_init(FALSE, fn.ret, "FUNCTION_TYPE_SCRIPT")>>,
                              !.work = program \o <<Then("program_end", 0, << >>)>>]
         IN Begin(obj_function_new(vm, Str_script, 0, FALSE))
    /\ UNCHANGED <<status, result, loaded, script, runs, pushes, last, hist, stores, parser>>

NextJumps ==
    \/ CompileJumps
    \/ CompileExpressionStatement
    \/ CompileBlock
    \/ EndScope
    \/ IfCondition
    \/ IfElse
    \/ IfEnd
    \/ WhileCondition
    \/ WhileEnd
    \/ ProgramEnd

SpecJumps == Init /\ [][NextJumps]_vars

\* run(), OP_JUMP / OP_JUMP_IF_FALSE / OP_LOOP: the operand read_short
\* reads and where the instruction at ip (from 1) takes frame->ip
JumpNames == {"OP_JUMP", "OP_JUMP_IF_FALSE", "OP_LOOP"}
OperandAt(code, ip) == ip + InstructionLength(code, ip) - 2
JumpOffset(code, ip) == code[OperandAt(code, ip)] * 256 + code[OperandAt(code, ip) + 1]
JumpTarget(code, ip) ==
    IF OpcodeAt(code, ip) = "OP_LOOP"
    THEN ip + InstructionLength(code, ip) - JumpOffset(code, ip)
    ELSE ip + InstructionLength(code, ip) + JumpOffset(code, ip)
JumpsAmong(code, starts) == {ip \in starts : OpcodeAt(code, ip) \in JumpNames}
\* every jump's operand is two bytes and its target the start of an
\* instruction of the chunk
JumpsLand(code) ==
    \A starts \in {InstructionStarts(code)} :
       \A ip \in JumpsAmong(code, starts) :
          /\ code[OperandAt(code, ip)] \in 0..UINT8_MAX
          /\ code[OperandAt(code, ip) + 1] \in 0..UINT8_MAX
          /\ JumpTarget(code, ip) \in starts
JumpOffsets(code) ==
    {JumpOffset(code, ip) : ip \in JumpsAmong(code, InstructionStarts(code))}

\* C24: every JUMP, JUMP_IF_FALSE and LOOP of a function the compiler
\* produces has a 16-bit offset that leads to the first byte of an
\* instruction of the same chunk; a statement whose jump would need a
\* larger offset makes the compilation fail with a message, and a statement
\* that needs at most 65535 compiles to a jump of exactly that offset.
C24_JumpsStayInside ==
    /\ \A f \in ProducedFunctions : JumpsLand(vm.mem[f].code)
    /\ \A shape \in JumpShapes, needed \in OffsetsNeeded :
          cc.phase \in {"done", "failed"} /\ cc.program = JumpProgram(shape, needed) =>
             /\ (cc.phase = "failed") = (needed > UINT16_MAX)
             /\ cc.phase = "failed" =>
                   cc.error \in {"Jump offset out of range.", "Loop body too large."}
             /\ cc.phase = "done" => needed \in JumpOffsets(vm.mem[cc.function].code)

\* `while (true) { B }` with a LOOP of offset 65535 has been compiled
C24_Witness ==
    /\ cc.phase = "done" /\ cc.program = JumpProgram("while", UINT16_MAX)
    /\ \E ip \in InstructionStarts(vm.mem[cc.function].code) :
          /\ OpcodeAt(vm.mem[cc.function].code, ip) = "OP_LOOP"
          /\ JumpOffset(vm.mem[cc.function].code, ip) = UINT16_MAX
          /\ JumpTarget(vm.mem[cc.function].code, ip) = 1

\* ------------------------------------------------------------ declarations
\* The scripts compiled here declare the names x and K with `let` and
\* `class K { m() { } }`: two declarations at the top level, two in one
\* block, or one at the top level and one in a block.
Declarations == {LetStmt(Str_x, FALSE, NoExpr), LetStmt(Str_K, FALSE, NoExpr), ClassStmt(Str_K)}
DeclarationScripts ==
    {<<first, second>> : first \in Declarations, second \in Declarations}
    \cup {<<BlockStmt(<<first, second>>)>> : first \in Declarations, second \in Declarations}
    \cup {<<first, BlockStmt(<<second>>)>> : first \in Declarations, second \in Declarations}

\* compiler_compile on one of these scripts, up to its loop over the statements
CompileDeclarations ==
    /\ cc.phase = "none" /\ Idle /\ loaded = NoProgram /\ HasFree(vm, 2)
    /\ \E program \in DeclarationScripts :
         LET Begin(fn) ==
                 /\ vm' = vm_push(fn.vm, value_make_obj(fn.ret), FALSE)
                 /\ cc' = [NoCompilation EXCEPT
                              !.phase = "compiling",
                              !.method = ScriptMethod,
                              !.program = program,
                              !.compilers =
                                  <<compiler_init(FALSE, fn.ret, "FUNCTION_TYPE_SCRIPT")>>,
                              !.work = program \o <<Then("program_end", 0, << >>)>>]
         IN Begin(obj_function_new(vm, Str_script, 0, FALSE))
    /\ UNCHANGED <<status, result, loaded, script, runs, pushes, last, hist, stores, parser>>

NextDeclare ==
    \/ CompileDeclarations
    \/ CompileLetStatement
    \/ CompileClassStatement
    \/ CompileMethod
    \/ MethodEnd
    \/ ClassEnd
    \/ CompileBlock
    \/ EndScope
    \/ ProgramEnd

SpecDeclare == Init /\ [][NextDeclare]_vars

\* the statement about to be compiled declares a name
AtDeclaration == At("STMT_LET") \/ At("STMT_CLASS")
\* and that name is already declared in the scope the compiler is in: among
\* the globals at the script's top level, among the locals of the current
\* block anywhere else
DeclaredInScope(name) ==
    IF ~Current.enclosing /\ Current.scope_depth = 0
    THEN \E i \in 1..Len(cc.globals) : cc.globals[i] = name
    ELSE \E i \in 1..Len(Current.locals) :
            Current.locals[i].name = name /\ Current.locals[i].depth = Current.scope_depth
Redeclares == AtDeclaration /\ DeclaredInScope(Head(cc.work).name)

\* C25: a declaration (let or class) of a name already declared in the
\* same scope makes the compilation fail with a message, at the top level
\* and in a block alike.
C25_RedeclarationRejected ==
    [][Redeclares => cc'.phase = "failed" /\ cc'.error # ""]_vars

\* the part of C25 that holds: a `let` of a name already declared in the
\* same scope, and any declaration of a name that is already a global at
\* the top level
C25_LetOrGlobalRejected ==
    [][Redeclares /\ (At("STMT_LET") \/ Current.scope_depth = 0)
          => cc'.phase = "failed" /\ cc'.error # ""]_vars

\* ------------------------------------------------------------ a local read in its own initializer
\* Scripts `<prefix> { let x = <initializer>; } <tail>`: the prefix declares
\* a global x, another global, or nothing; the initializer reads x or does not.
UninitializedRead == "Cannot read local variable before initialization."
OwnReads ==
    {ExprIdentifier(Str_x),
     ExprUnary("TOKEN_MINUS", ExprIdentifier(Str_x)),
     ExprBinary(ExprIdentifier(Str_x), "TOKEN_PLUS", ExprNumber(1)),
     ExprBinary(ExprNumber(1), "TOKEN_MINUS", ExprIdentifier(Str_x))}
OtherInitializers == {ExprNumber(1), ExprIdentifier(Str_y)}
InitializerPrefixes ==
    {<< >>, <<LetStmt(Str_x, FALSE, NoExpr)>>, <<LetStmt(Str_x, TRUE, ExprNumber(1))>>,
     <<LetStmt(Str_y, FALSE, NoExpr)>>}
InitializerTails == {<< >>, <<ExprStmt(ExprNumber(1))>>}
InitializerScript(prefix, initializer, tail) ==
    prefix \o <<BlockStmt(<<LetStmt(Str_x, TRUE, initializer)>>)>> \o tail
InitializerScripts ==
    {InitializerScript(prefix, initializer, tail) :
        prefix \in InitializerPrefixes, initializer \in OwnReads \cup OtherInitializers,
        tail \in InitializerTails}
OwnReadScripts ==
    {InitializerScript(prefix, initializer, tail) :
        prefix \in InitializerPrefixes, initializer \in OwnReads, tail \in InitializerTails}
\* those of them with no global named x
OwnReadScriptsNoGlobal ==
    {InitializerScript(prefix, initializer, tail) :
        prefix \in {<< >>, <<LetStmt(Str_y, FALSE, NoExpr)>>}, initializer \in OwnReads,
        tail \in InitializerTails}

\* compiler_compile on one of these scripts, up to its loop over the statements
CompileInitializers ==
    /\ cc.phase = "none" /\ Idle /\ loaded = NoProgram /\ HasFree(vm, 2)
    /\ \E program \in InitializerScripts :
         LET Begin(fn) ==
                 /\ vm' = vm_push(fn.vm, value_make_obj(fn.ret), FALSE)
                 /\ cc' = [NoCompilation EXCEPT
                              !.phase = "compiling",
                              !.method = ScriptMethod,
                              !.program = program,
                              !.compilers =
                                  <<compiler_init(FALSE, fn.ret, "FUNCTION_TYPE_SCRIPT")>>,
                              !.work = program \o <<Then("program_end", 0, << >>)>>]
         IN Begin(obj_function_new(vm, Str_script, 0, FALSE))
    /\ UNCHANGED <<status, result, loaded, script, runs, pushes, last, hist, stores, parser>>

NextInitializer ==
    \/ CompileInitializers
    \/ CompileLetStatement
    \/ CompileExpressionStatement
    \/ CompileBlock
    \/ EndScope
    \/ ProgramEnd

SpecInitializer == Init /\ [][NextInitializer]_vars

CompileReturned == cc.phase \in {"done", "failed"}

\* C26: a read of a local inside its own initializer always makes the
\* compilation fail with "Cannot read local variable ... before
\* initialization.", with or without a global of the same name; once that
\* message is recorded the compilation yields no function.
C26_OwnInitializerFails ==
    /\ cc.error = UninitializedRead => cc.phase # "done"
    /\ CompileReturned /\ cc.program \in OwnReadScripts =>
          cc.phase = "failed" /\ cc.error = UninitializedRead

\* the part of C26 that holds: with no global of that name the compilation
\* fails with that message
C26_FailsWithoutGlobal ==
    CompileReturned /\ cc.program \in OwnReadScriptsNoGlobal =>
        cc.phase = "failed" /\ cc.error = UninitializedRead /\ cc.function = NULL

\* ------------------------------------------------------------ the errors of a compilation
\* Scripts of up to two of ErrorStatements, some with a read of or an
\* assignment to a name that is not declared or with a second declaration
\* of a name, and scripts of expression statements `1 + 1 + ... + 1;` that
\* put ConstantCounts number constants in the script's chunk, ConstLeaves
\* of them at most per statement.
ConstLeaves == 32768
ConstantCounts == {UINT16_MAX - 1, UINT16_MAX}
RECURSIVE NumberSum(_)
NumberSum(leaves) ==
    IF leaves = 1 THEN ExprNumber(1)
    ELSE ExprBinary(NumberSum(leaves \div 2), "TOKEN_PLUS", NumberSum(leaves - leaves \div 2))
ConstantsScript(count) ==
    [i \in 1..(count \div ConstLeaves) |-> ExprStmt(NumberSum(ConstLeaves))]
        \o (IF count % ConstLeaves = 0 THEN << >>
            ELSE <<ExprStmt(NumberSum(count % ConstLeaves))>>)
ErrorStatements ==
    {ExprStmt(ExprNull),
     ExprStmt(ExprIdentifier(Str_x)),
     ExprStmt(ExprAssignment(Str_x, ExprNull)),
     LetStmt(Str_x, FALSE, NoExpr),
     LetStmt(Str_x, TRUE, ExprNull),
     BlockStmt(<<LetStmt(Str_x, FALSE, NoExpr)>>),
     BlockStmt(<<LetStmt(Str_x, FALSE, NoExpr), LetStmt(Str_x, FALSE, NoExpr)>>)}
ShortScripts == UNION {[1..n -> ErrorStatements] : n \in 1..2}
IsLet(statement) == statement.kind = "STMT_LET"
NamesX(statement) ==
    statement.kind = "STMT_EXPRESSION" /\ statement.expr.kind # "EXPR_LITERAL_NULL"
\* the short scripts with an undefined name or a duplicate declaration
NameErrorScripts ==
    {short \in ShortScripts :
        \/ NamesX(short[1])
        \/ \E i \in 1..Len(short) : short[i].kind = "STMT_BLOCK" /\ Len(short[i].body) = 2
        \/ Len(short) = 2 /\ IsLet(short[1]) /\ IsLet(short[2])
        \/ Len(short) = 2 /\ ~IsLet(short[1]) /\ NamesX(short[2])}
\* the scripts with one of the errors listed
ErrorScripts == NameErrorScripts \cup {ConstantsScript(UINT16_MAX)}
CompiledScripts == ShortScripts \cup {ConstantsScript(count) : count \in ConstantCounts}

\* compiler_compile on one of these scripts, up to its loop over the statements
CompileErrors ==
    /\ cc.phase = "none" /\ Idle /\ loaded = NoProgram /\ HasFree(vm, 2)
    /\ \E program \in CompiledScripts :
         LET Begin(fn) ==
                 /\ vm' = vm_push(fn.vm, value_make_obj(fn.ret), FALSE)
                 /\ cc' = [NoCompilation EXCEPT
                              !.phase = "compiling",
                              !.method = ScriptMethod,
                              !.program = program,
                              !.compilers =
                                  <<compiler_init(FALSE, fn.ret, "FUNCTION_TYPE_SCRIPT")>>,
                              !.work = program \o <<Then("program_end", 0, << >>)>>]
         IN Begin(obj_function_new(vm, Str_script, 0, FALSE))
    /\ UNCHANGED <<status, result, loaded, script, runs, pushes, last, hist, stores, parser>>

NextErrors ==
    \/ CompileErrors
    \/ CompileLetStatement
    \/ CompileExpressionStatement
    \/ CompileBlock
    \/ EndScope
    \/ ProgramEnd

SpecErrors == Init /\ [][NextErrors]_vars

\* compiler_compile has returned NULL with a message
CompileReturnedNull == cc.phase = "failed" /\ cc.function = NULL /\ cc.error # ""

\* C27: each of the compile-time errors listed (here: an undefined name, a
\* duplicate name, too many constants) makes compiler_compile return NULL
\* with a message, and none of them ends the process; a script with none
\* of them compiles.
C27_ErrorsReturnNull ==
    /\ cc.phase # "exited"
    /\ cc.phase \in {"done", "failed"} =>
          IF cc.program \in ErrorScripts THEN CompileReturnedNull ELSE cc.phase = "done"

\* the part of C27 that holds: whenever compiler_compile returns NULL there
\* is a message, and the name errors make it return NULL
C27_NullHasMessage ==
    /\ cc.phase = "failed" => CompileReturnedNull
    /\ cc.phase \in {"done", "failed", "exited"} /\ cc.program \in ShortScripts =>
          IF cc.program \in NameErrorScripts THEN CompileReturnedNull ELSE cc.phase = "done"

\* ------------------------------------------------------------ compound assignment
\* The texts parsed are `<name> += <e> ;` for the names x and y and every e
\* of up to MaxValue of ValueTokens (most of them are no expression).
MaxValue == 3
ValueTokens ==
    {TokNumber(1), TokIdentifier(Str_x), TokIdentifier(Str_y), Tok("TOKEN_PLUS"),
     Tok("TOKEN_STAR"), Tok("TOKEN_MINUS"), Tok("TOKEN_EQUAL_EQUAL"), Tok("TOKEN_EQUAL"),
     Tok("TOKEN_PLUS_EQUAL")}
ValueTexts == UNION {[1..n -> ValueTokens] : n \in 1..MaxValue}
AssignmentText(name, assignment_type, e) ==
    <<TokIdentifier(name), Tok(assignment_type)>> \o e \o <<T_semi>>
CompoundSources ==
    {AssignmentText(name, "TOKEN_PLUS_EQUAL", e) : name \in {Str_x, Str_y}, e \in ValueTexts}

\* parser_parse on one of these texts, up to its loop
ParseCompound ==
    /\ parser.phase = "none" /\ cc.phase = "none" /\ Idle /\ loaded = NoProgram
    /\ \E source \in CompoundSources :
         parser' = [NoParse EXCEPT !.phase = "parsing", !.p = parser_init(source),
                                   !.open = << << >> >>]
    /\ UNCHANGED <<vm, status, result, loaded, script, runs, pushes, last, hist, cc, stores>>

NextCompound ==
    \/ ParseCompound
    \/ ParseDeclaration
    \/ ParserReturn

SpecCompound == Init /\ [][NextCompound]_vars

\* the text parser_parse was given, and the text between `+=` and `;`
SourceText == parser.p.lexer.source
ValueText == SubSeq(SourceText, 3, Len(SourceText) - 1)
\* what parse_declaration makes of `<name> = <e> ;`
PlainAssignment ==
    parse_declaration(parser_init(AssignmentText(SourceText[1].lexeme, "TOKEN_EQUAL", ValueText)))
PlainParses ==
    /\ PlainAssignment.ret.kind = "STMT_EXPRESSION"
    /\ ~PlainAssignment.p.had_error
    /\ PlainAssignment.p.current.type = "TOKEN_EOF"

\* C28: `x += e` parses to the tree of `x = x + e`: an assignment to x of
\* BINARY(+, IDENTIFIER x, E), E the tree e has as the value of `x = e`;
\* and it is rejected exactly when `x = e` is.
C28_CompoundIsSum ==
    parser.phase = "returned" /\ SourceText \in CompoundSources =>
        IF PlainParses
        THEN /\ ~parser.null
             /\ PlainAssignment.ret.expr.kind = "EXPR_ASSIGNMENT"
             /\ parser.program =
                    <<ExprStmt(ExprAssignment(SourceText[1].lexeme,
                                   ExprBinary(ExprIdentifier(SourceText[1].lexeme), "TOKEN_PLUS",
                                              PlainAssignment.ret.expr.value)))>>
        ELSE parser.null

\* `x += y * 1;` has been parsed
C28_Witness ==
    /\ parser.phase = "returned"
    /\ SourceText = <<T_x, Tok("TOKEN_PLUS_EQUAL"), TokIdentifier(Str_y), Tok("TOKEN_STAR"),
                      TokNumber(1), T_semi>>
    /\ parser.program =
           <<ExprStmt(ExprAssignment(Str_x,
                 ExprBinary(ExprIdentifier(Str_x), "TOKEN_PLUS",
                     ExprBinary(ExprIdentifier(Str_y), "TOKEN_STAR", ExprNumber(1)))))>>

\* ------------------------------------------------------------ precedence
\* The texts parsed are `a op1 b op2 c ;`: a, b and c out of Operands (a
\* number or a name, with or without a unary operator in front and a call
\* behind), op1 and op2 out of the binary and the assignment operators.
Primaries == {TokNumber(1), TokNumber(2), TokNumber(3), T_x}
Operands ==
    {<<primary>> : primary \in Primaries}
    \cup {<<T_minus, T_x>>, <<T_x, Tok("TOKEN_LPAREN"), Tok("TOKEN_RPAREN")>>,
          <<Tok("TOKEN_BANG"), T_x, Tok("TOKEN_LPAREN"), Tok("TOKEN_RPAREN")>>}
AssignmentOperators == {"TOKEN_EQUAL", "TOKEN_PLUS_EQUAL"}
Operators == AssignmentOperators \cup UNION {Levels[level] : level \in 1..Len(Levels)}
PrecedenceText(a, op1, b, op2, c) == a \o <<Tok(op1)>> \o b \o <<Tok(op2)>> \o c \o <<T_semi>>
PrecedenceSources ==
    {PrecedenceText(a, op1, b, op2, c) :
        a \in Operands, op1 \in Operators, b \in Operands, op2 \in Operators, c \in Operands}

\* parser_parse on one of these texts, up to its loop
ParsePrecedence ==
    /\ parser.phase = "none" /\ cc.phase = "none" /\ Idle /\ loaded = NoProgram
    /\ \E source \in PrecedenceSources :
         parser' = [NoParse EXCEPT !.phase = "parsing", !.p = parser_init(source),
                                   !.open = << << >> >>]
    /\ UNCHANGED <<vm, status, result, loaded, script, runs, pushes, last, hist, cc, stores>>

NextPrecedence ==
    \/ ParsePrecedence
    \/ ParseDeclaration
    \/ ParserReturn

SpecPrecedence == Init /\ [][NextPrecedence]_vars

\* The ladder as the claim gives it: the rung of an operator, the lowest
\* first (unary operators and calls are above all of these)
Rung(operator_type) ==
    CASE operator_type \in AssignmentOperators -> 0
      [] operator_type \in {"TOKEN_EQUAL_EQUAL", "TOKEN_BANG_EQUAL"} -> 1
      [] operator_type \in {"TOKEN_GREATER", "TOKEN_GREATER_EQUAL", "TOKEN_LESS",
                            "TOKEN_LESS_EQUAL"} -> 2
      [] operator_type \in {"TOKEN_PLUS", "TOKEN_MINUS"} -> 3
      [] operator_type \in {"TOKEN_STAR", "TOKEN_SLASH"} -> 4
\* the operand that starts at text[i] (tree) and where the text goes on
\* (next): the call is below the unary operator
OperandFrom(text, i) ==
    LET Tree(unary, primary, called) ==
            LET leaf == IF text[primary].type = "TOKEN_NUMBER"
                        THEN ExprNumber(text[primary].number_value)
                        ELSE ExprIdentifier(text[primary].lexeme)
                inner == IF called THEN ExprCall(leaf, << >>) ELSE leaf
            IN [tree |-> IF unary THEN ExprUnary(text[i].type, inner) ELSE inner,
                next |-> IF called THEN primary + 3 ELSE primary + 1]
        From(unary, primary) == Tree(unary, primary, text[primary + 1].type = "TOKEN_LPAREN")
        Start(unary) == From(unary, IF unary THEN i + 1 ELSE i)
    IN Start(text[i].type \in {"TOKEN_MINUS", "TOKEN_BANG"})
\* the tree of `target op value`: an assignment needs a name as its target
Joined(target, operator_type, value) ==
    IF target.kind = "none" \/ value.kind = "none" THEN NoExpr
    ELSE IF operator_type \notin AssignmentOperators
    THEN ExprBinary(target, operator_type, value)
    ELSE IF target.kind # "EXPR_IDENTIFIER" THEN NoExpr
    ELSE IF operator_type = "TOKEN_EQUAL" THEN ExprAssignment(target.name, value)
    ELSE ExprAssignment(target.name, ExprBinary(ExprIdentifier(target.name), "TOKEN_PLUS", value))
\* the tree the ladder gives `a op1 b op2 c` (NoExpr when it gives none):
\* op2 takes b when it is on a higher rung than op1, or when both are
\* assignments; op1 takes it otherwise
Laddered(a, op1, b, op2, c) ==
    IF Rung(op2) > Rung(op1) \/ (Rung(op1) = 0 /\ Rung(op2) = 0)
    THEN Joined(a, op1, Joined(b, op2, c))
    ELSE Joined(Joined(a, op1, b), op2, c)
ExpectedTree(text) ==
    LET Third(a, b, c) == Laddered(a.tree, text[a.next].type, b.tree, text[b.next].type, c.tree)
        Second(a, b) == Third(a, b, OperandFrom(text, b.next + 1))
        First(a) == Second(a, OperandFrom(text, a.next + 1))
    IN First(OperandFrom(text, 1))

\* C29: binary expressions are parsed by the ladder assignment < equality
\* < comparison < term < factor < unary < call: of two adjacent operators
\* the one on the higher rung is deeper in the tree, operators of one rung
\* associate to the left, assignment to the right.
C29_PrecedenceLadder ==
    parser.phase = "returned" /\ SourceText \in PrecedenceSources =>
        IF ExpectedTree(SourceText).kind = "none" THEN parser.null
        ELSE ~parser.null /\ parser.program = <<ExprStmt(ExpectedTree(SourceText))>>

\* `1 + 2 * 3;` has been parsed to BINARY(+, 1, BINARY(*, 2, 3))
C29_Witness ==
    /\ parser.phase = "returned"
    /\ SourceText = <<TokNumber(1), Tok("TOKEN_PLUS"), TokNumber(2), Tok("TOKEN_STAR"),
                      TokNumber(3), T_semi>>
    /\ parser.program =
           <<ExprStmt(ExprBinary(ExprNumber(1), "TOKEN_PLUS",
                          ExprBinary(ExprNumber(2), "TOKEN_STAR", ExprNumber(3))))>>

\* ------------------------------------------------------------ a number and a string added
\* the decimal text of a whole number that is not negative
RECURSIVE NumberText(_)
NumberText(n) == IF n < 10 THEN <<48 + n>> ELSE NumberText(n \div 10) \o <<48 + (n % 10)>>
NumberAndString == value_is_number(AddLeft) /\ value_is_string(vm.mem, AddRight)

\* C30: ADD with a number on the left and a string on the right yields a
\* string: the number's text followed by the string's bytes.
C30_NumberPlusString ==
    [][Fetch("OP_ADD") /\ NumberAndString =>
          /\ status' = "running" /\ ~vm'.ub
          /\ value_is_string(vm'.mem, AddResult)
          /\ vm'.mem[AddResult.v].chars = NumberText(AddLeft.v) \o vm.mem[AddRight.v].chars]_vars

\* what the code does instead: the run ends with a runtime error and no
\* string is made
C30_NumberPlusStringRaises ==
    [][Fetch("OP_ADD") /\ NumberAndString =>
          /\ RaisesError
          /\ \A a \in Addr : TypeOf(vm.mem, a) = "free" => TypeOf(vm'.mem, a) = "free"]_vars

\* ------------------------------------------------------------ the lexer (lexer.c)
\* A text is the sequence of its bytes; the byte after the last one is the
\* terminating 0.  A Lexer is [source, start, current], start and current
\* counted from 1.  The value strtod gives a number's lexeme is kept as the
\* whole part and the digits after the point.
CharAt(source, i) == IF i > Len(source) THEN 0 ELSE source[i]
is_at_end(lexer) == CharAt(lexer.source, lexer.current) = 0
peek(lexer) == CharAt(lexer.source, lexer.current)
peek_next(lexer) == IF is_at_end(lexer) THEN 0 ELSE CharAt(lexer.source, lexer.current + 1)
lexer_advance(lexer) == IF is_at_end(lexer) THEN lexer ELSE [lexer EXCEPT !.current = @ + 1]
Digits == 48..57
Letters == (65..90) \cup (97..122)
NameChars == Letters \cup Digits \cup {95}
\* advance while the current byte is one of chars (0 is none of them)
RECURSIVE AdvanceWhile(_, _)
AdvanceWhile(lexer, chars) ==
    IF peek(lexer) \in chars THEN AdvanceWhile(lexer_advance(lexer), chars) ELSE lexer

RECURSIVE skip_whitespace(_)
skip_whitespace(lexer) ==
    IF peek(lexer) \in {32, 13, 9, 10} THEN skip_whitespace(lexer_advance(lexer))
    ELSE IF peek(lexer) = 47 /\ peek_next(lexer) = 47
    THEN skip_whitespace(AdvanceWhile(lexer, (1..255) \ {10}))
    ELSE lexer

NoNumber == [whole |-> 0, fraction |-> << >>]
make_token_from_range(type, lexeme) == Token(type, lexeme, NoNumber, "")
Lexeme(lexer) == SubSeq(lexer.source, lexer.start, lexer.current - 1)
make_token(lexer, type) == make_token_from_range(type, Lexeme(lexer))
make_error_token(message) == Token("TOKEN_ERROR", << >>, NoNumber, message)

\* string (the opening quote has been consumed)
LexString(lexer) ==
    LET Closed(l1) ==
            IF peek(l1) # 34
            THEN [lexer |-> l1, ret |-> make_error_token("Unterminated string literal")]
            ELSE [lexer |-> lexer_advance(l1),
                  ret |-> make_token_from_range("TOKEN_STRING",
                              SubSeq(l1.source, l1.start + 1, l1.current - 1))]
    IN Closed(AdvanceWhile(lexer, (1..255) \ {34, 10}))

\* strtod on digits, or digits, a point and digits
RECURSIVE DecimalValue(_)
DecimalValue(digits) ==
    IF digits = << >> THEN 0
    ELSE 10 * DecimalValue(SubSeq(digits, 1, Len(digits) - 1)) + (digits[Len(digits)] - 48)
strtod(lexeme) ==
    LET points == {i \in 1..Len(lexeme) : lexeme[i] = 46}
        point == IF points = {} THEN Len(lexeme) + 1 ELSE CHOOSE i \in points : TRUE
    IN [whole |-> DecimalValue(SubSeq(lexeme, 1, point - 1)),
        fraction |-> SubSeq(lexeme, point + 1, Len(lexeme))]
\* number (its first digit has been consumed)
LexNumber(lexer) ==
    LET Made(l2) ==
            [lexer |-> l2,
             ret |-> [make_token(l2, "TOKEN_NUMBER") EXCEPT !.number_value = strtod(Lexeme(l2))]]
        Fraction(l1) ==
            IF peek(l1) = 46 /\ peek_next(l1) \in Digits
            THEN Made(AdvanceWhile(lexer_advance(l1), Digits))
            ELSE Made(l1)
    IN Fraction(AdvanceWhile(lexer, Digits))

\* the keywords identifier_type knows, by their bytes
Keywords ==
    {[text |-> <<101, 108, 115, 101>>, type |-> "TOKEN_KEYWORD_ELSE"],
     [text |-> <<102, 97, 108, 115, 101>>, type |-> "TOKEN_KEYWORD_FALSE"],
     [text |-> <<102, 117, 110, 99, 116, 105, 111, 110>>, type |-> "TOKEN_KEYWORD_FUNCTION"],
     [text |-> <<105, 102>>, type |-> "TOKEN_KEYWORD_IF"],
     [text |-> <<108, 101, 116>>, type |-> "TOKEN_KEYWORD_LET"],
     [text |-> <<110, 117, 108, 108>>, type |-> "TOKEN_KEYWORD_NULL"],
     [text |-> <<114, 101, 116, 117, 114, 110>>, type |-> "TOKEN_KEYWORD_RETURN"],
     [text |-> <<116, 114, 117, 101>>, type |-> "TOKEN_KEYWORD_TRUE"],
     [text |-> <<119, 104, 105, 108, 101>>, type |-> "TOKEN_KEYWORD_WHILE"]}
identifier_type(lexeme) ==
    LET found == {keyword \in Keywords : keyword.text = lexeme}
    IN IF found = {} THEN "TOKEN_IDENTIFIER" ELSE (CHOOSE keyword \in found : TRUE).type
\* identifier (its first byte has been consumed)
LexIdentifier(lexer) ==
    LET Made(l1) == [lexer |-> l1, ret |-> make_token(l1, identifier_type(Lexeme(l1)))]
    IN Made(AdvanceWhile(lexer, NameChars))

\* the tokens of one byte, and those that take a `=` behind them
SingleTokens ==
    [c \in {40, 41, 123, 125, 91, 93, 44, 59, 45, 42, 47} |->
        CASE c = 40 -> "TOKEN_LPAREN" [] c = 41 -> "TOKEN_RPAREN"
          [] c = 123 -> "TOKEN_LBRACE" [] c = 125 -> "TOKEN_RBRACE"
          [] c = 91 -> "TOKEN_LBRACKET" [] c = 93 -> "TOKEN_RBRACKET"
          [] c = 44 -> "TOKEN_COMMA" [] c = 59 -> "TOKEN_SEMICOLON"
          [] c = 45 -> "TOKEN_MINUS" [] c = 42 -> "TOKEN_STAR" [] c = 47 -> "TOKEN_SLASH"]
EqualTokens ==
    [c \in {43, 33, 61, 62, 60} |->
        CASE c = 43 -> <<"TOKEN_PLUS", "TOKEN_PLUS_EQUAL">>
          [] c = 33 -> <<"TOKEN_BANG", "TOKEN_BANG_EQUAL">>
          [] c = 61 -> <<"TOKEN_EQUAL", "TOKEN_EQUAL_EQUAL">>
          [] c = 62 -> <<"TOKEN_GREATER", "TOKEN_GREATER_EQUAL">>
          [] c = 60 -> <<"TOKEN_LESS", "TOKEN_LESS_EQUAL">>]

\* lexer_next_token on a text: the lexer afterwards and the token
ScanToken(lexer) ==
    LET Made(l1, type) == [lexer |-> l1, ret |-> make_token(l1, type)]
        Dispatch(c, l1) ==
            IF c \in Letters \cup {95} THEN LexIdentifier(l1)
            ELSE IF c \in Digits THEN LexNumber(l1)
            ELSE IF c \in DOMAIN SingleTokens THEN Made(l1, SingleTokens[c])
            ELSE IF c \in DOMAIN EqualTokens
            THEN IF peek(l1) = 61 THEN Made(lexer_advance(l1), EqualTokens[c][2])
                 ELSE Made(l1, EqualTokens[c][1])
            ELSE IF c = 34 THEN LexString(l1)
            ELSE [lexer |-> l1, ret |-> make_error_token("Unexpected character")]
        Started(l0) ==
            IF is_at_end(l0) THEN [lexer |-> l0, ret |-> make_token_from_range("TOKEN_EOF", << >>)]
            ELSE Dispatch(peek(l0), lexer_advance(l0))
        Skipped(l0) == Started([l0 EXCEPT !.start = l0.current])
    IN Skipped(skip_whitespace(lexer))

\* ---- lexing texts with names, numbers and dots
\* the pieces a text is made of: class constructor this value true s . 1 5
\* space ; =
Str_class == <<99, 108, 97, 115, 115>>
MaxPieces == 3
Pieces ==
    {Str_class, ConstructorName, Str_this, Str_value, <<116, 114, 117, 101>>, <<115>>,
     <<46>>, <<49>>, <<53>>, <<32>>, <<59>>, <<61>>}
RECURSIVE TextsOf(_)
TextsOf(n) ==
    IF n = 0 THEN {<< >>}
    ELSE TextsOf(n - 1) \cup {text \o piece : text \in TextsOf(n - 1), piece \in Pieces}
LexerTexts == TextsOf(MaxPieces) \ {<< >>}

\* lexer_init on a text.  While a text is lexed parser.p.lexer is the Lexer,
\* parser.program the tokens lexer_next_token has returned and parser.open
\* (history) the bytes between start and current at each return.
Lexing == parser.phase = "lexing"
LexerInit ==
    /\ parser.phase = "none" /\ cc.phase = "none" /\ Idle /\ loaded = NoProgram
    /\ \E source \in LexerTexts :
         parser' = [NoParse EXCEPT !.phase = "lexing",
                                   !.p.lexer = [source |-> source, start |-> 1, current |-> 1]]
    /\ UNCHANGED <<vm, status, result, loaded, script, runs, pushes, last, hist, cc, stores>>

ReturnedEnd ==
    parser.program # << >> /\ parser.program[Len(parser.program)].type = "TOKEN_EOF"
\* lexer_next_token, called until it has returned the end of the text
LexerNextToken ==
    /\ Lexing
    /\ ~ReturnedEnd
    /\ LET Yielded(next) ==
               parser' = [parser EXCEPT !.p.lexer = next.lexer,
                                        !.program = Append(@, next.ret),
                                        !.open = Append(@, Lexeme(next.lexer))]
       IN Yielded(ScanToken(parser.p.lexer))
    /\ UNCHANGED <<vm, status, result, loaded, script, runs, pushes, last, hist, cc, stores>>

NextLexer ==
    \/ LexerInit
    \/ LexerNextToken

SpecLexer == Init /\ [][NextLexer]_vars

LexedText == parser.p.lexer.source
LexedAll == Lexing /\ ReturnedEnd
TokenTypes == [i \in 1..Len(parser.program) |-> parser.program[i].type]

\* C31: the lexer returns the keyword tokens CLASS, CONSTRUCTOR and THIS for
\* the words `class`, `constructor` and `this` and a DOT token for `.`, so
\* that `this.value` lexes as THIS, DOT, IDENTIFIER and a number followed by
\* a dot without a digit as NUMBER then DOT.
C31_MemberAccessTokens ==
    Lexing =>
        /\ \A i \in 1..Len(parser.program) :
             /\ parser.open[i] = Str_class => TokenTypes[i] = "TOKEN_KEYWORD_CLASS"
             /\ parser.open[i] = ConstructorName => TokenTypes[i] = "TOKEN_KEYWORD_CONSTRUCTOR"
             /\ parser.open[i] = Str_this => TokenTypes[i] = "TOKEN_KEYWORD_THIS"
             /\ parser.open[i] = <<46>> => TokenTypes[i] = "TOKEN_DOT"
        /\ LexedAll /\ LexedText = Str_this \o <<46>> \o Str_value =>
             TokenTypes = <<"TOKEN_KEYWORD_THIS", "TOKEN_DOT", "TOKEN_IDENTIFIER", "TOKEN_EOF">>
        /\ LexedAll /\ LexedText = <<49, 46>> =>
             TokenTypes = <<"TOKEN_NUMBER", "TOKEN_DOT", "TOKEN_EOF">>

\* C31, what lexer.c does: `class`, `constructor` and `this` are identifiers,
\* a `.` that is not inside a number is an unexpected character, and a number
\* followed by a dot without a digit ends before the dot.
C31_AsLexed ==
    Lexing =>
        \A i \in 1..Len(parser.program) :
          /\ parser.open[i] \in {Str_class, ConstructorName, Str_this} =>
               TokenTypes[i] = "TOKEN_IDENTIFIER" /\ parser.program[i].lexeme = parser.open[i]
          /\ parser.open[i] = <<46>> =>
               TokenTypes[i] = "TOKEN_ERROR" /\ parser.program[i].message = "Unexpected character"
          /\ TokenTypes[i] = "TOKEN_NUMBER" =>
               /\ parser.open[i][Len(parser.open[i])] \in Digits
               /\ parser.program[i].lexeme = parser.open[i]

\* ---- register windows
\* the slots of the i-th active frame's window: register_count slots from
\* its registers pointer
WindowBase(i) == vm.frames[i].registers.off
WindowEnd(i) == WindowBase(i) + vm.mem[vm.frames[i].function].register_count
Window(i) == WindowBase(i)..(WindowEnd(i) - 1)
WindowsDisjoint ==
    \A i, j \in 1..Len(vm.frames) : i # j => Window(i) \cap Window(j) = {}
WindowsWithinStack ==
    \A i \in 1..Len(vm.frames) :
        /\ Live(vm, vm.frames[i].registers)
        /\ 0 <= WindowBase(i) /\ WindowEnd(i) <= vm.stack_top
TopWindowEndsStack == vm.stack_top = WindowEnd(Len(vm.frames))

\* C32: at every instruction boundary the register windows of the active
\* frames are pairwise disjoint, each lies between the stack base and
\* stack_top, and stack_top is the end of the top frame's window.
C32_WindowsPartitionStack ==
    status = "running" /\ vm.frames # << >> =>
        /\ WindowsDisjoint
        /\ WindowsWithinStack
        /\ TopWindowEndsStack

\* C32, what holds while the stack block has not moved: the windows start
\* at or above the stack base, and stack_top is the end of the top frame's
\* window or, in a frame entered by an INVOKE that pushed a bound method, one
\* slot below it.
C32_WindowsUntilInvoke ==
    Running /\ vm.frames # << >> /\ (\A i \in 1..Len(vm.frames) : Live(vm, vm.frames[i].registers)) =>
        /\ \A i \in 1..Len(vm.frames) : 0 <= WindowBase(i)
        /\ vm.stack_top \in {WindowEnd(Len(vm.frames)), WindowEnd(Len(vm.frames)) - 1}

\* ------------------------------------------------------------ INVOKE against GET_PROPERTY and CALL
NextInvoke ==
    \/ LoadInvoke
    \/ Interpret
    \/ OpLoadConst
    \/ OpSetProperty
    \/ OpGetProperty
    \/ OpClass
    \/ OpMethod
    \/ OpCall
    \/ OpInvoke
    \/ OpReturn

SpecInvoke == Init /\ [][NextInvoke]_vars

\* the call of recv.m in either form: the CALL or INVOKE with destination 5
MethodCall == loaded.kind = "invoke" /\ last.op \in CallOps /\ last.dest = 5
MethodReturn ==
    loaded.kind = "invoke" /\ last.op = "OP_RETURN" /\ last.dest = 5 /\ last.depth = 2
\* what recv.m names: the field's function f on an instance that has the
\* field, else the method m, bound to the instance or bare on the class
NamesField == loaded.a = 0 /\ loaded.ctor
NamesBound == loaded.a = 0 /\ ~loaded.ctor
ScriptReg(i) == Rd(vm.stack, vm.frames[1].registers.off + i)
Seven == value_make_number(7)
Eight == value_make_number(8)
\* the registers the callee starts with, and the arguments the call takes
ExpectedRegisters ==
    IF NamesField THEN <<Seven, Null>>
    ELSE IF NamesBound THEN <<ScriptReg(1), Seven, Null>>
    ELSE <<Seven, Eight, Null>>
ExpectedArguments == IF loaded.a = 0 THEN 1 ELSE 2
ExpectedValue == IF loaded.a = 0 THEN Seven ELSE Eight
SameCallee ==
    /\ Entered
    /\ vm.mem[vm.mem[Top(vm).function].name].chars = IF NamesField THEN Str_f ELSE Str_m
    /\ \A i \in 1..Len(ExpectedRegisters) : CalleeReg(i - 1) = ExpectedRegisters[i]
SameStackTop == vm.stack_top = WindowEnd(Len(vm.frames))

\* C33: obj.name(args) as INVOKE leaves the VM as GET_PROPERTY into the
\* destination followed by CALL does: in both forms the same callee runs
\* with the same registers (the field's function when the instance has a
\* field of the method's name), stack_top is at the same place relative to
\* the callee's window, and the same value reaches the destination.
C33_InvokeAsGetThenCall ==
    /\ MethodCall =>
          IF last.n = ExpectedArguments THEN SameCallee /\ SameStackTop ELSE Refused
    /\ MethodReturn => ScriptReg(5) = ExpectedValue

\* C33, what holds: the same callee with the same registers and the same
\* value in the destination in both forms; stack_top is the end of the
\* callee's window after CALL and, for a bound method, one slot below it
\* after INVOKE.
C33_SameButStackTop ==
    /\ MethodCall =>
          IF last.n = ExpectedArguments
          THEN /\ SameCallee
               /\ vm.stack_top = WindowEnd(Len(vm.frames))
                                   - (IF last.op = "OP_INVOKE" /\ NamesBound THEN 1 ELSE 0)
          ELSE Refused
    /\ MethodReturn => ScriptReg(5) = ExpectedValue /\ SameStackTop

\* ---- the effect of a step on the registers of the active frames
\* register r of the i-th frame, before and after the step
RegisterKept(i, r) ==
    Rd(vm'.stack, vm.frames[i].registers.off + r) = Rd(vm.stack, vm.frames[i].registers.off + r)
\* the registers a step of run may change: any register of the frame whose
\* instruction it is, but on a CALL or INVOKE the destination only, and on a
\* RETURN the destination in the frame returned into
MayChange(i, r) ==
    \/ last'.op \notin CallOps \cup {"OP_RETURN"} /\ i = Len(vm.frames)
    \/ last'.op \in CallOps /\ i = Len(vm.frames) /\ r = last'.dest
    \/ last'.op = "OP_RETURN" /\ i = Len(vm'.frames) /\ r = last'.dest
FrameEffect ==
    status = "running" /\ status' = "running" /\ ~vm.ub /\ ~vm'.ub =>
        \A i \in 1..Len(vm.frames) :
            \A r \in 0..(vm.mem[vm.frames[i].function].register_count - 1) :
                MayChange(i, r) \/ RegisterKept(i, r)

\* C34: a call, from its CALL or INVOKE to the matching RETURN, changes no
\* register of the caller's window but the destination: a frame's registers
\* are changed by its own instructions and by returns into it only, not by
\* the null-fill and argument copy of a call it makes nor by a frame above.
C34_FrameEffect == [][FrameEffect]_vars

\* C34, what holds: the same of every step taken where the windows are
\* disjoint and stack_top is the end of the top frame's window.
C34_FrameEffectOfDisjoint ==
    [][status = "running" /\ vm.frames # << >> /\ WindowsDisjoint /\ TopWindowEndsStack
          => FrameEffect]_vars

\* ---- allocation points
\* An allocation point: the VM as it is when an operation allocates, and the
\* objects the operation has allocated before and uses afterwards.
\* obj_function_new at obj_string_copy of the name: the function is allocated
RootedAt(m, needed) == needed \subseteq Reachable(m)
FunctionAtName(m, arity) ==
    LET Point(al) == RootedAt(al.vm, {al.ret})
    IN Point(allocate_object(m, FunctionCell(arity)))
\* obj_string_take at table_define: the string is allocated and pushed
StringAtDefine(m, chars, moved) ==
    LET Point(al) == RootedAt(vm_push(al.vm, value_make_obj(al.ret), moved), {al.ret})
    IN Point(allocate_string(m, chars, hash_bytes(chars)))
\* OP_BUILD_ARRAY at obj_array_append: the array is allocated and pushed
ArrayAtAppend(m, moved) ==
    LET Point(al) == RootedAt(vm_push(al.vm, value_make_obj(al.ret), moved), {al.ret})
    IN Point(obj_array_new(m))
\* OP_INVOKE at call_value: the bound method is allocated and pushed
BoundAtCall(m, receiver, method, moved) ==
    LET Point(bound) ==
            RootedAt(vm_push(bound.vm, value_make_obj(bound.ret), moved), {bound.ret})
    IN Point(obj_bound_method_new(m, receiver, method))

StepBuildsFunction ==
    /\ last'.op = "load" /\ Prog(loaded')[1].name # NoName
    /\ table_find_string(vm, Prog(loaded')[1].name, hash_bytes(Prog(loaded')[1].name)) = NULL
StepInternsString == last'.op = "obj_string_copy" /\ last'.existing = {}
StepBuildsArray == status = "running" /\ last'.op = "OP_BUILD_ARRAY"
StepInvokesBound ==
    status = "running" /\ last'.op = "OP_INVOKE" /\ last'.kind = "bound_method"

\* C35: at every allocation of an operation the objects the operation
\* allocated before and still needs are reachable from a root: the function
\* whose name is being interned, the newly interned string, the array under
\* construction, the bound method about to be called.
C35_AllocationsRooted ==
    [][/\ StepBuildsFunction => FunctionAtName(vm, Prog(loaded')[1].arity)
       /\ StepInternsString => \A moved \in BOOLEAN : StringAtDefine(vm, last'.chars, moved)
       /\ StepBuildsArray => \A moved \in BOOLEAN : ArrayAtAppend(vm, moved)
       /\ StepInvokesBound =>
             \A moved \in BOOLEAN : BoundAtCall(vm, last'.receiver, last'.target.v, moved)]_vars

\* C35, what holds: the same without the function of obj_function_new, in
\* a VM whose stack_top is not below the stack.
C35_PushedAllocationsRooted ==
    [][vm.stack_top >= 0 =>
       /\ StepInternsString => \A moved \in BOOLEAN : StringAtDefine(vm, last'.chars, moved)
       /\ StepBuildsArray => \A moved \in BOOLEAN : ArrayAtAppend(vm, moved)
       /\ StepInvokesBound =>
             \A moved \in BOOLEAN : BoundAtCall(vm, last'.receiver, last'.target.v, moved)]_vars

\* ------------------------------------------------------------ parameters: the compiler and call dispatch
\* function <name>(<parameters>) { <body> }; the node keeps the parameter
\* names in els
FunctionStmt(name, parameters, body) ==
    Node("STMT_FUNCTION", name, FALSE, NoExpr, body, parameters, 0)

\* compile_function_statement up to the statements of the body: the name
\* (a global at the script's scope depth 0, a local anywhere else), the
\* function, the child compiler with the parameters, and
\* compile_function_body's begin_scope
CompileFunctionStatement ==
    /\ At("STMT_FUNCTION") /\ HasFree(vm, 2)
    /\ LET statement == Head(cc.work)
           arity == Len(statement.els)
           is_global == ~K.c.enclosing /\ K.c.scope_depth = 0
           Body(k1, k3, home) ==
               /\ vm' = k3.vm
               /\ cc' = [cc EXCEPT !.compilers =
                                       Append([@ EXCEPT ![Len(cc.compilers)] = k1.c], k3.c),
                                   !.globals = k1.globals,
                                   !.error = k3.error,
                                   !.work = statement.body
                                            \o <<Then("function_end", home, << >>)>>
                                            \o Tail(cc.work)]
               /\ UNCHANGED <<status, result, loaded, script, runs, pushes, last, hist, stores, parser>>
           Child(k1, fn, home) ==
               Body(k1,
                    begin_scope(AddParameters(
                        Compiling(compiler_init(TRUE, fn.ret, "FUNCTION_TYPE_FUNCTION"),
                                  vm_push(fn.vm, value_make_obj(fn.ret), FALSE),
                                  k1.globals, k1.error),
                        statement.els, 1)),
                    home)
           Named(k1, home) ==
               IF ~k1.ok THEN Step(k1, << >>)
               ELSE Child(k1, obj_function_new(k1.vm, statement.name, arity, FALSE), home)
           Local(k1) ==
               Named(IF k1.ok THEN Declare(k1, local_count(k1), k1.c.scope_depth) ELSE k1,
                     IF k1.ok THEN k1.c.locals[local_count(k1)].reg ELSE 0)
       IN IF arity > UINT8_MAX
          THEN Step(Reject(K, "Function has too many parameters."), << >>)
          ELSE IF is_global THEN Named(global_table_add(K, statement.name), Len(K.globals))
          ELSE Local(add_local(K, statement.name))

\* the end of compile_function_statement: end_scope and the return of
\* compile_function_body, then the function as a constant of the enclosing
\* function, stored in the global or moved to the local
FunctionEnd ==
    /\ At("function_end") /\ HasFree(vm, 1)
    /\ LET home == Head(cc.work).at
           function == Current.function
           Defined(k5) ==
               /\ vm' = k5.vm
               /\ cc' = [cc EXCEPT !.compilers =
                                       Append(SubSeq(@, 1, Len(cc.compilers) - 2), k5.c),
                                   !.globals = k5.globals,
                                   !.error = k5.error, !.compiled = function,
                                   !.work = Tail(cc.work)]
               /\ UNCHANGED <<status, result, loaded, script, runs, pushes, last, hist, stores, parser>>
           Stored(k3, dest, is_global) ==
               Defined(pop_stack_slots(IF is_global THEN emit_op_define_global(k3, dest, home)
                                       ELSE emit_op_move(k3, home, dest),
                                       1))
           Constant(k2, dest, is_global) ==
               IF ~k2.ok THEN Step(k2, << >>)
               ELSE Stored([emit_op_load_constant(k2, dest, value_make_obj(function))
                               EXCEPT !.vm = vm_pop(@)],
                           dest, is_global)
           Enclosing(enclosing) ==
               Constant(push_stack_slot(enclosing),
                        stack_register(enclosing, enclosing.c.stack_depth),
                        ~enclosing.c.enclosing /\ enclosing.c.scope_depth = 0)
           Body(k1) ==
               IF ~k1.ok THEN Step(k1, << >>)
               ELSE Enclosing(Compiling(cc.compilers[Len(cc.compilers) - 1], k1.vm,
                                        k1.globals, k1.error))
       IN Body(emit_return(end_scope(K)))

\* The programs: a function f, at the top level or in a block, or a class K
\* with a method m or a constructor, with up to MaxParameters parameters
\* out of x and y and a body that reads them.
MaxParameters == 2
ParameterLists == {<< >>, <<Str_x>>, <<Str_y>>, <<Str_x, Str_y>>, <<Str_y, Str_x>>}
ParameterBodies ==
    {<< >>,
     <<ReturnStmt(TRUE, ExprIdentifier(Str_x))>>,
     <<ReturnStmt(TRUE, ExprIdentifier(Str_y))>>,
     <<LetStmt(Str_f, TRUE, ExprIdentifier(Str_y)), ReturnStmt(TRUE, ExprIdentifier(Str_f))>>}
ParameterPrograms ==
    {[program |-> <<FunctionStmt(Str_f, parameters, body)>>, method |-> NoMethod] :
        parameters \in ParameterLists, body \in ParameterBodies}
    \cup {[program |-> <<BlockStmt(<<FunctionStmt(Str_f, parameters, body)>>)>>,
           method |-> NoMethod] :
             parameters \in ParameterLists, body \in ParameterBodies}
    \cup {[program |-> <<ClassStmt(Str_K)>>,
           method |-> [name |-> IF ctor THEN ConstructorName ELSE Str_m,
                       is_constructor |-> ctor, parameters |-> parameters, body |-> body]] :
             ctor \in BOOLEAN, parameters \in ParameterLists, body \in ParameterBodies}

CompileParameters ==
    /\ cc.phase = "none" /\ Idle /\ loaded = NoProgram /\ HasFree(vm, 2)
    /\ \E p \in ParameterPrograms :
         LET Begin(fn) ==
                 /\ vm' = vm_push(fn.vm, value_make_obj(fn.ret), FALSE)
                 /\ cc' = [NoCompilation EXCEPT
                              !.phase = "compiling",
                              !.method = p.method,
                              !.program = p.program,
                              !.compilers =
                                  <<compiler_init(FALSE, fn.ret, "FUNCTION_TYPE_SCRIPT")>>,
                              !.work = p.program \o <<Then("program_end", 0, << >>)>>]
         IN Begin(obj_function_new(vm, Str_script, 0, FALSE))
    /\ UNCHANGED <<status, result, loaded, script, runs, pushes, last, hist, stores, parser>>

NextParameters ==
    \/ CompileParameters
    \/ CompileFunctionStatement
    \/ FunctionEnd
    \/ CompileClassStatement
    \/ CompileMethod
    \/ MethodEnd
    \/ ClassEnd
    \/ CompileBlock
    \/ EndScope
    \/ CompileLetStatement
    \/ CompileReturnStatement
    \/ ProgramEnd

SpecParameters == Init /\ [][NextParameters]_vars

\* the function being compiled, the parameters its declaration names, and
\* the number of registers before them (1 for the `this` of a method or a
\* constructor)
InFunction == cc.phase = "compiling" /\ ~vm.ub /\ Len(cc.compilers) = 2
DeclaredFunction ==
    IF cc.program[1].kind = "STMT_BLOCK" THEN cc.program[1].body[1] ELSE cc.program[1]
DeclaredParameters ==
    IF Current.type = "FUNCTION_TYPE_FUNCTION" THEN DeclaredFunction.els
    ELSE cc.method.parameters
ThisRegisters == IF Current.type = "FUNCTION_TYPE_FUNCTION" THEN 0 ELSE 1
\* the register of the function's own local of that name
ParameterRegister(name) ==
    Current.locals[CHOOSE j \in 1..Len(Current.locals) :
                       Current.locals[j].name = name /\ Current.locals[j].depth = 0].reg

\* A call of the function by a caller of MaxParameters + 1 registers whose
\* registers 0, 1, .. hold the arguments 11, 12, ..: CALL dest, callee, n,
\* 0, 1, ..; a method is called as a bound method of the receiver 9.
Argument(i) == value_make_number(11 + i)
Receiver == value_make_number(9)
RECURSIVE WithArguments(_, _)
WithArguments(m, n) ==
    IF n = 0 THEN m
    ELSE [WithArguments(m, n - 1) EXCEPT
             !.stack = Wr(@, Top(m).registers.off + n - 1, Argument(n - 1))]
Dispatched(function, n, bound) ==
    LET caller == cc.compilers[1].function
        Call(m3, callee) ==
            call_value(m3, 1, MaxParameters, callee, n, [i \in 1..n |-> i - 1], FALSE, FALSE)
        Bound(made) == Call(made.vm, value_make_obj(made.ret))
        Callee(m2) ==
            IF bound THEN Bound(obj_bound_method_new(m2, Receiver, function))
            ELSE Call(m2, value_make_obj(function))
        Entered0(cf) == Callee(WithArguments(cf.vm, n))
        Pushed(m1) == Entered0(call_function(m1, 0, caller, 0, 0, << >>, FALSE, FALSE))
        Reset(m0) ==
            Pushed(vm_push(ensure_frame_capacity(vm_reset_stack(m0), 1),
                           value_make_obj(caller), FALSE))
    IN Reset([vm EXCEPT !.mem[caller].register_count = MaxParameters + 1])
DispatchedRegister(d, r) == Rd(d.vm.stack, Top(d.vm).registers.off + r)

\* C36: the register the compiler gives the i-th declared parameter of a
\* function is register i, the one call dispatch fills with the i-th
\* argument; in a method or constructor `this` is register 0, which
\* dispatch fills with the receiver, and the i-th parameter register i + 1;
\* the arity is the number of registers the call fills.
C36_ParametersAgree ==
    InFunction /\ HasFree(vm, 1) =>
        LET n == Len(DeclaredParameters)
            Agree(d) ==
                /\ d.ok
                /\ Len(d.vm.frames) = 2 /\ Top(d.vm).function = Current.function
                /\ vm.mem[Current.function].arity = n + ThisRegisters
                /\ \A i \in 0..(n - 1) :
                      /\ ParameterRegister(DeclaredParameters[i + 1]) = i + ThisRegisters
                      /\ DispatchedRegister(d, ParameterRegister(DeclaredParameters[i + 1]))
                            = Argument(i)
                /\ ThisRegisters = 1 =>
                      /\ ParameterRegister(Str_this) = 0
                      /\ DispatchedRegister(d, ParameterRegister(Str_this)) = Receiver
                /\ \A r \in 0..(vm.mem[Current.function].register_count - 1) :
                      r >= n + ThisRegisters => DispatchedRegister(d, r) = Null
        IN Agree(Dispatched(Current.function, n, ThisRegisters = 1))

\* a method with two parameters and a function with two parameters, in the
\* body, having declared a local beyond the parameters
C36_Witness ==
    /\ InFunction /\ HasFree(vm, 1)
    /\ Len(DeclaredParameters) = MaxParameters
    /\ Len(Current.locals) > MaxParameters + ThisRegisters
    /\ ThisRegisters = 1
C36_WitnessFunction ==
    /\ InFunction /\ HasFree(vm, 1)
    /\ Len(DeclaredParameters) = MaxParameters
    /\ Len(Current.locals) > MaxParameters
    /\ ThisRegisters = 0

\* ------------------------------------------------------------ while loops, compiled and run
\* The scripts
\*     let x = <first>; let y = <second>; let n = 0;
\*     while (x) { n = n - 1; x = y; y = null; }
\*     n;
\* whose condition is read anew from x at every turn: n counts the turns of
\* the body downwards from 0.
Str_n == <<110>>
LoopValues ==
    <<ExprNull, ExprBool(FALSE), ExprBool(TRUE), ExprNumber(0), ExprNumber(5), ExprString(<< >>),
      ExprString(Str_a)>>
AssignStmt(name, value) == ExprStmt(ExprAssignment(name, value))
LoopBody ==
    BlockStmt(<<AssignStmt(Str_n, ExprBinary(ExprIdentifier(Str_n), "TOKEN_MINUS", ExprNumber(1))),
                AssignStmt(Str_x, ExprIdentifier(Str_y)),
                AssignStmt(Str_y, ExprNull)>>)
LoopProgram(first, second) ==
    <<LetStmt(Str_x, TRUE, first), LetStmt(Str_y, TRUE, second),
      LetStmt(Str_n, TRUE, ExprNumber(0)),
      WhileStmt(ExprIdentifier(Str_x), LoopBody),
      ExprStmt(ExprIdentifier(Str_n))>>
IsLoopProgram(program) == Len(program) = 5 /\ program[4].kind = "STMT_WHILE"

\* compiler_compile on one of these scripts, up to its loop over the statements
CompileLoops ==
    /\ cc.phase = "none" /\ Idle /\ loaded = NoProgram /\ HasFree(vm, 4)
    /\ \E first \in DOMAIN LoopValues, second \in DOMAIN LoopValues :
         LET Begin(fn, program) ==
                 /\ vm' = vm_push(fn.vm, value_make_obj(fn.ret), FALSE)
                 /\ cc' = [NoCompilation EXCEPT
                              !.phase = "compiling",
                              !.method = ScriptMethod,
                              !.program = program,
                              !.compilers =
                                  <<compiler_init(FALSE, fn.ret, "FUNCTION_TYPE_SCRIPT")>>,
                              !.work = program \o <<Then("program_end", 0, << >>)>>]
         IN Begin(obj_function_new(vm, Str_script, 0, FALSE),
                  LoopProgram(LoopValues[first], LoopValues[second]))
    /\ UNCHANGED <<status, result, loaded, script, runs, pushes, last, hist, stores, parser>>

NextLoops ==
    \/ CompileLoops
    \/ CompileLetStatement
    \/ CompileExpressionStatement
    \/ CompileBlock
    \/ EndScope
    \/ WhileCondition
    \/ WhileEnd
    \/ ProgramEnd
    \/ RunProgram
    \/ OpLoadConst
    \/ OpLoadNull
    \/ OpLoadTrue
    \/ OpLoadFalse
    \/ OpSubtract
    \/ OpJumpIfFalse
    \/ OpLoop
    \/ OpGetGlobal
    \/ OpDefineGlobal
    \/ OpSetGlobal
    \/ OpReturn

SpecLoops == Init /\ [][NextLoops]_vars

\* the chunk of the script that runs, and where its loop lies: frame->ip
\* counts from 0, the bytes of a chunk from 1
LoopCode == vm.mem[script].code
ExitJumpAt ==
    CHOOSE ip \in InstructionStarts(LoopCode) : OpcodeAt(LoopCode, ip) = "OP_JUMP_IF_FALSE"
LoopAt == CHOOSE ip \in InstructionStarts(LoopCode) : OpcodeAt(LoopCode, ip) = "OP_LOOP"
\* the condition `x` is one read of the global x, placed before the jump out
ConditionStart == ExitJumpAt - Len(I_GET_GLOBAL(0, 0))
ConditionIsRead ==
    /\ OpcodeAt(LoopCode, ConditionStart) = "OP_GET_GLOBAL"
    /\ JumpOffset(LoopCode, ConditionStart) = 0
BodyStart == ExitJumpAt + InstructionLength(LoopCode, ExitJumpAt)
AfterLoop == LoopAt + InstructionLength(LoopCode, LoopAt)
\* what the language counts as true: everything except null and false
CountsAsTrue(value) == value # value_make_null /\ value # value_make_bool(FALSE)
LiteralCountsAsTrue(expression) ==
    /\ expression.kind # "EXPR_LITERAL_NULL"
    /\ expression.kind = "EXPR_LITERAL_BOOL" => expression.value
\* the turns the body of a script takes: x holds first, then second, then null
Turns(program) ==
    IF ~LiteralCountsAsTrue(program[1].expr) THEN 0
    ELSE IF ~LiteralCountsAsTrue(program[2].expr) THEN 1
    ELSE 2
RunsLoop == cc.phase = "done" /\ IsLoopProgram(cc.program) /\ runs = 1
\* the value of x when the instruction just executed read it
ConditionValue == vm.globals[1]

\* C37: a compiled while loop reads its condition anew before every turn,
\* runs the body once for each time the condition is neither null nor false
\* (0 and the empty string count as true), goes on behind the loop the first
\* time it is null or false, and its LOOP jumps back to the first instruction
\* of the condition.
C37_WhileLoop ==
    RunsLoop =>
        /\ ConditionIsRead
        /\ (status = "running" /\ last.op = "OP_LOOP") => Top(vm).ip + 1 = ConditionStart
        /\ (status = "running" /\ last.op = "OP_JUMP_IF_FALSE") =>
               Top(vm).ip + 1 = IF CountsAsTrue(ConditionValue) THEN BodyStart ELSE AfterLoop
        /\ status = "idle" =>
               /\ Returned("INTERPRET_OK")
               /\ result.value = value_make_number(0 - Turns(cc.program))
\* a script whose condition was 0, then the empty string, then null has
\* taken two turns and returned
C37_Witness ==
    /\ RunsLoop
    /\ cc.program[1].expr.kind = "EXPR_LITERAL_NUMBER" /\ cc.program[1].expr.value = 0
    /\ cc.program[2].expr.kind = "EXPR_LITERAL_STRING" /\ cc.program[2].expr.value = << >>
    /\ Returned("INTERPRET_OK")
    /\ result.value = value_make_number(0 - 2)

\* ------------------------------------------------------------ the state a collection leaves
OnObjectList(m) == {m.objects[i] : i \in DOMAIN m.objects}
MarkedObjects(m) == {a \in Addr : TypeOf(m.mem, a) # "free" /\ m.mem[a].marked}
\* the objects a collection kept and the ones it freed
Survivors == {a \in OnObjectList(last.before) : TypeOf(vm.mem, a) # "free"}
Freed == {a \in OnObjectList(last.before) : TypeOf(vm.mem, a) = "free"}

\* C38: every vm_collect_garbage leaves the gray stack empty and the mark
\* bit of every surviving object cleared: between collections no object on
\* the object list is marked, and every collection starts from that state.
C38_CleanBetweenCollections ==
    /\ vm.gray_stack = << >>
    /\ MarkedObjects(vm) = {}
    /\ last.op = "vm_collect_garbage" =>
           /\ last.before.gray_stack = << >>
           /\ MarkedObjects(last.before) = {}
\* a collection that has kept objects, one of them reached only through
\* another object, and freed one
C38_Witness ==
    /\ last.op = "vm_collect_garbage"
    /\ Freed # {}
    /\ \E a \in Survivors : a \notin Roots(last.before)

\* ------------------------------------------------------------ the mark phase, step by step
\* vm_collect_garbage followed through its loops: mark_roots, then one
\* turn of the loop of trace_references at a time, then the rest.  While it
\* runs `last` keeps the VM it started from and the objects mark_object has
\* pushed on the gray stack, in the order of the pushes.
Collecting == status = "collecting"
\* what a step has pushed: blacken_object and mark_roots only push
PushedBy(from, to) == SubSeq(to.gray_stack, Len(from.gray_stack) + 1, Len(to.gray_stack))

MarkRoots ==
    /\ Idle
    /\ vm' = mark_roots(vm)
    /\ status' = "collecting"
    /\ last' = [op |-> "mark_roots", before |-> vm, pushed |-> PushedBy(vm, mark_roots(vm))]
    /\ UNCHANGED <<result, loaded, script, runs, pushes, hist, cc, stores, parser>>

\* one turn of `while (vm->gray_count > 0)`
TraceStep ==
    /\ Collecting /\ vm.gray_stack # << >>
    /\ LET Blackened(popped, m) ==
               /\ vm' = m
               /\ last' = [last EXCEPT !.op = "blacken_object",
                                       !.pushed = @ \o PushedBy(popped, m)]
           Popped(object, popped) == Blackened(popped, blacken_object(popped, object))
       IN Popped(vm.gray_stack[Len(vm.gray_stack)],
                 [vm EXCEPT !.gray_stack = SubSeq(@, 1, Len(@) - 1)])
    /\ UNCHANGED <<status, result, loaded, script, runs, pushes, hist, cc, stores, parser>>

\* the loop has ended: table_remove_white, sweep and the new threshold
SweepAll ==
    /\ Collecting /\ vm.gray_stack = << >>
    /\ LET Swept(m) ==
               /\ vm' = m
               /\ script' = IF script # NULL /\ m.mem[script].type = "free" THEN NULL
                            ELSE script
               /\ result' = IF value_is_obj(result.value) /\ m.mem[result.value.v].type = "free"
                            THEN [result EXCEPT !.value = Null] ELSE result
       IN Swept(next_gc_after(sweep(table_remove_white(vm))))
    /\ status' = "idle"
    /\ last' = [last EXCEPT !.op = "vm_collect_garbage"]
    /\ UNCHANGED <<loaded, runs, pushes, hist, cc, stores, parser>>

NextMark ==
    \/ LoadCycle
    \/ Interpret
    \/ VmPush
    \/ OpLoadConst
    \/ OpClass
    \/ OpMethod
    \/ OpCall
    \/ OpBuildArray
    \/ OpGetProperty
    \/ OpSetProperty
    \/ OpDefineGlobal
    \/ OpReturn
    \/ MarkRoots
    \/ TraceStep
    \/ SweepAll

\* vm_collect_garbage runs to its return without waiting for anything: weak
\* fairness of its steps.  One of them is enabled exactly in the states in
\* which the collection is under way, so WF_vars(TraceStep \/ SweepAll) is
\* written with Collecting in the place of ENABLED <<TraceStep \/ SweepAll>>_vars.
CollectionGoesOn == []<>(~Collecting) \/ []<><<TraceStep \/ SweepAll>>_vars
SpecMark == Init /\ [][NextMark]_vars /\ CollectionGoesOn

InCollection == "pushed" \in DOMAIN last
PushedOnce ==
    InCollection =>
        \A i, j \in DOMAIN last.pushed : last.pushed[i] = last.pushed[j] => i = j
\* an object reaches itself through the references objects hold
OnCycle(mem, a) == a \in ReachableFrom(mem, Refs(mem, a))
MarkDone == vm.gray_stack = << >>

\* C39: the mark phase terminates on every object graph, cyclic ones
\* included: each object is pushed on the gray stack at most once in a
\* collection, and every collection that has marked its roots comes to the
\* end of the loop of trace_references and returns.
C39_MarkTerminates ==
    /\ []PushedOnce
    /\ Collecting ~> (Collecting /\ MarkDone)
    /\ Collecting ~> Idle
\* a collection that has returned after it pushed an object that lies on a
\* cycle, and the whole of what the roots reach
C39_Witness ==
    /\ Idle /\ last.op = "vm_collect_garbage"
    /\ \E i \in DOMAIN last.pushed : OnCycle(last.before.mem, last.pushed[i])
    /\ {last.pushed[i] : i \in DOMAIN last.pushed} = Reachable(last.before)
    /\ vm = vm_collect_garbage(last.before)
====
